---- MODULE Spec2Model ----
(***************************************************************************)
(* Conversation orchestration of the Gokarna Guide chat front end          *)
(* (App.tsx: session store, intent router, conversation engine, media      *)
(* generation coordinator) as a state machine.                             *)
(*                                                                         *)
(* Text is a sequence of tokens: a word, a punctuation mark or one space   *)
(* character (SP).  Non-ASCII labels of the source are transliterated.     *)
(* An optional value (null | v) is << >> | <<v>>.                          *)
(***************************************************************************)
EXTENDS Integers, Sequences, FiniteSets, TLC

\* ---------------------------------------------------------------- bounds
MaxEvents == 2      \* user and environment events: submissions, session operations, notices
MaxClose == 1      \* events that read a clock less than MaxGap ms after the last read
MaxGap == 2      \* ms between two events: 0, 1, or "2 or more"
MaxMid == 1      \* ms between two Date.now() reads of one handler
MaxChunks == 2     \* chunks of one chat stream
MaxPolls == 1     \* polls of one video job that report "not done"
MaxReloads == 1     \* page reloads
MaxTurns == 5       \* default submissions in the specification of consecutive turns
MaxLateEvents == 3      \* events in the specification of late results
MaxSummaryEvents == 3      \* events in the specification of the summaries
MaxPendingEvents == 3      \* events in the specification of the pending image prompt

\* ------------------------------------------------------------ text model
SP == " "
None == << >>
Some(v) == <<v>>

Min(S) == CHOOSE x \in S : \A y \in S : x <= y
Max(S) == CHOOSE x \in S : \A y \in S : x >= y

\* words separated by single spaces
W(ws) ==
  [i \in 1..(IF Len(ws) = 0 THEN 0 ELSE 2 * Len(ws) - 1) |->
     IF i % 2 = 1 THEN ws[(i + 1) \div 2] ELSE SP]

\* String.prototype.toLowerCase on one token of the vocabulary
LowerWord(w) ==
  CASE w = "Hindi" -> "hindi"
    [] w = "English" -> "english"
    [] w = "Kannada" -> "kannada"
    [] w = "Tamil" -> "tamil"
    [] w = "Telugu" -> "telugu"
    [] w = "Malayalam" -> "malayalam"
    [] w = "Trip" -> "trip"
    [] w = "Plan" -> "plan"
    [] w = "Yatra" -> "yatra"
    [] w = "Yojana" -> "yojana"
    [] w = "Watercolor" -> "watercolor"
    [] w = "Photorealistic" -> "photorealistic"
    [] w = "Sketch" -> "sketch"
    [] w = "Draw" -> "draw"
    [] w = "How" -> "how"
    [] OTHER -> w

toLowerCase(t) == [i \in 1..Len(t) |-> LowerWord(t[i])]

\* variant that leaves the text as typed
trim_Identity(t) == t

trim(t) ==
  LET idx == {i \in 1..Len(t) : t[i] # SP}
  IN IF idx = {} THEN << >> ELSE SubSeq(t, Min(idx), Max(idx))

\* characters of one token (for the .{0,50} window of imageGenBlockRegex)
CharLen(w) ==
  CASE w = SP -> 1
    [] w \in {"a", "I", "."} -> 1
    [] w \in {"in", "to", "it", "do", "is", "me", "of"} -> 2
    [] w \in {"how", "How", "cat", "use", "you", "why", "now"} -> 3
    [] w \in {"draw", "Draw", "make", "edit", "blue", "Trip", "Plan", "trip",
              "plan", "what", "show", "give", "talk", "will"} -> 4
    [] w \in {"hello", "Hindi", "hindi", "speak", "Tamil", "Yatra", "yatra",
              "notes"} -> 5
    [] w \in {"switch", "sunset", "change", "Yojana", "yojana", "create",
              "Sketch", "sketch"} -> 6
    [] w \in {"respond", "English", "english", "explain", "Kannada"} -> 7
    [] w \in {"generate", "describe", "Briefing"} -> 8
    [] OTHER -> 10

RECURSIVE CharsOf(_)
CharsOf(t) == IF t = << >> THEN 0 ELSE CharLen(Head(t)) + CharsOf(Tail(t))

\* tokens i.. of t spell pat, compared case-insensitively (flag i)
MatchAt(t, i, pat) ==
  /\ i >= 1
  /\ i + Len(pat) - 1 <= Len(t)
  /\ \A k \in 1..Len(pat) : LowerWord(t[i + k - 1]) = pat[k]

\* ------------------------------------------------- constants.ts (absent)
\* LANGUAGES: codes as keyed in initialSuggestions, names as in the spec
LANGUAGES ==
  << [code |-> "en-US", name |-> "English"],
     [code |-> "hi-IN", name |-> "Hindi"],
     [code |-> "kn-IN", name |-> "Kannada"],
     [code |-> "ta-IN", name |-> "Tamil"],
     [code |-> "te-IN", name |-> "Telugu"],
     [code |-> "ml-IN", name |-> "Malayalam"] >>

LanguageCodes == {LANGUAGES[i].code : i \in DOMAIN LANGUAGES}

\* ART_STYLES: the fixed enumerated art styles
ART_STYLES == << <<"Photorealistic">>, <<"Watercolor">>, <<"Sketch">> >>

ArtStyleSet == {ART_STYLES[i] : i \in DOMAIN ART_STYLES}

\* TRIP_PLAN_PROMPT[code]: the canned, language-specific static reply
TRIP_PLAN_PROMPT(code) == <<"TRIP_PLAN_PROMPT", code>>

\* TODAYS_BRIEFING_PROMPT[code]
TODAYS_BRIEFING_PROMPT(code) == <<"TODAYS_BRIEFING_PROMPT", code>>

\* ------------------------------------------------------------- App data
\* initialSuggestions[code][5].text, the "Trip Plan" chip of each language
TripPlanLabel(code) ==
  CASE code = "en-US" -> W(<<"Trip", "Plan">>)
    [] code = "hi-IN" -> W(<<"Yatra", "Yojana">>)
    [] code = "kn-IN" -> W(<<"Pravasa", "Yojane">>)
    [] code = "ta-IN" -> W(<<"Payanat", "Tittam">>)
    [] code = "te-IN" -> W(<<"Trip", "Plan-te">>)
    [] code = "ml-IN" -> W(<<"Yatra", "Paddhati">>)

\* initialSuggestions[code]: chip 0 carries a prompt override, chip 5 is the
\* trip plan; chips 1..4 are plain labels
initialSuggestions(code) ==
  << [text |-> <<"Briefing", code>>, prompt |-> Some(TODAYS_BRIEFING_PROMPT(code))],
     [text |-> <<"Beaches", code>>, prompt |-> None],
     [text |-> <<"Hotels", code>>, prompt |-> None],
     [text |-> <<"Food", code>>, prompt |-> None],
     [text |-> <<"Temples", code>>, prompt |-> None],
     [text |-> TripPlanLabel(code), prompt |-> None] >>

\* ChatMessage with every optional field absent
Msg(id, text, sender) ==
  [id |-> id, text |-> text, sender |-> sender, suggestions |-> << >>,
   images |-> << >>, sources |-> << >>, isLoading |-> FALSE, files |-> << >>,
   isWelcome |-> FALSE, isSystem |-> FALSE, videoState |-> "none",
   videoUrl |-> None, uid |-> 0]

getWelcomeMessage(languageCode, t) ==
  [Msg(t, << >>, "bot") EXCEPT
     !.suggestions = IF languageCode \in LanguageCodes
                     THEN initialSuggestions(languageCode)
                     ELSE initialSuggestions("en-US"),
     !.isWelcome = TRUE]

\* { id: Date.now().toString(), title: 'New Chat', messages: [getWelcomeMessage(code)], ... }
NewSession(t1, t2, languageCode, uid) ==
  [id |-> t1, title |-> <<"New", SP, "Chat">>,
   messages |-> <<[getWelcomeMessage(languageCode, t2) EXCEPT !.uid = uid]>>,
   languageCode |-> languageCode]

\* Array.prototype.filter
RECURSIVE SelectSeqIdx(_, _)
SelectSeqIdx(s, keep) ==
  IF s = << >> THEN << >>
  ELSE (IF Len(s) \in keep THEN SelectSeqIdx(SubSeq(s, 1, Len(s) - 1), keep) \o <<s[Len(s)]>>
        ELSE SelectSeqIdx(SubSeq(s, 1, Len(s) - 1), keep))

\* variant that lets system messages through
messageToGeminiContent_KeepsSystem(m) ==
  IF m.isWelcome \/ (trim(m.text) = << >> /\ Len(m.files) = 0)
  THEN None
  ELSE Some([role |-> IF m.sender = "user" THEN "user" ELSE "model",
             text |-> m.text, files |-> m.files])

\* messageToGeminiContent: null for system, welcome and empty messages
messageToGeminiContent(m) ==
  IF m.isSystem \/ m.isWelcome \/ (trim(m.text) = << >> /\ Len(m.files) = 0)
  THEN None
  ELSE Some([role |-> IF m.sender = "user" THEN "user" ELSE "model",
             text |-> m.text, files |-> m.files])

RECURSIVE geminiHistory(_)
geminiHistory(ms) ==
  IF ms = << >> THEN << >>
  ELSE messageToGeminiContent(Head(ms)) \o geminiHistory(Tail(ms))

\* -------------------------------------------------- router predicates
\* langChangeRegex: \b(?:in|speak|talk in|use|change to|switch to|respond in)\s+(<names>)\b, flag i
LangVerbs ==
  { <<"in">>, <<"speak">>, <<"talk", SP, "in">>, <<"use">>,
    <<"change", SP, "to">>, <<"switch", SP, "to">>, <<"respond", SP, "in">> }

languagesForRegex == {LowerWord(LANGUAGES[i].name) : i \in DOMAIN LANGUAGES}

\* positions k of the captured language name for a match starting at token i
LangCaptureAt(t, i) ==
  {k \in 1..Len(t) :
     \E v \in LangVerbs :
        /\ MatchAt(t, i, v)
        /\ k > i + Len(v)
        /\ \A m \in (i + Len(v))..(k - 1) : t[m] = SP
        /\ LowerWord(t[k]) \in languagesForRegex}

\* text.trim().match(langChangeRegex): match[1].toLowerCase() of the leftmost match
langChangeMatch(text) ==
  LET t == trim(text)
      starts == {i \in 1..Len(t) : LangCaptureAt(t, i) # {}}
  IN IF starts = {} THEN None
     ELSE Some(LowerWord(t[Min(LangCaptureAt(t, Min(starts)))]))

\* LANGUAGES.find(l => l.name.toLowerCase() === requestedLangName)
findLanguageByName(requestedLangName) ==
  LANGUAGES[Min({i \in DOMAIN LANGUAGES : LowerWord(LANGUAGES[i].name) = requestedLangName})]

\* imageGenRegex
ImageGenWords ==
  {"generate", "create", "draw", "make", "imagine", "produce", "render", "paint",
   "picture", "photo", "drawing", "painting", "illustration", "artwork", "sketch",
   "portrait"}

ImageGenPhrases == { <<"show", SP, "me">>, <<"give", SP, "me">> }

imageGenRegex(text) ==
  LET t == trim(text)
  IN \E i \in 1..Len(t) :
        \/ LowerWord(t[i]) \in ImageGenWords
        \/ \E p \in ImageGenPhrases : MatchAt(t, i, p)

\* imageGenBlockRegex:
\* \b(what|how|why|explain|describe)\b.{0,50}\b(to|do you|is it possible to)\s*(generate|create|draw|make|edit)
BlockQuestionWords == {"what", "how", "why", "explain", "describe"}

BlockConnectors ==
  { <<"to">>, <<"do", SP, "you">>, <<"is", SP, "it", SP, "possible", SP, "to">> }

\* vocabulary words that begin with generate|create|draw|make|edit
BlockVerbPrefixed == {"generate", "create", "draw", "make", "edit", "drawing"}

imageGenBlockRegex(text) ==
  LET t == trim(text)
  IN \E i \in 1..Len(t) : \E j \in 1..Len(t) : \E k \in 1..Len(t) : \E c \in BlockConnectors :
        /\ LowerWord(t[i]) \in BlockQuestionWords
        /\ j > i
        /\ CharsOf(SubSeq(t, i + 1, j - 1)) <= 50
        /\ MatchAt(t, j, c)
        /\ k >= j + Len(c)
        /\ \A m \in (j + Len(c))..(k - 1) : t[m] = SP
        /\ LowerWord(t[k]) \in BlockVerbPrefixed

\* tripPlanVariants.includes(text.toLowerCase().trim())
tripPlanVariants == {toLowerCase(TripPlanLabel(LANGUAGES[i].code)) : i \in DOMAIN LANGUAGES}

isTripPlan(text) == trim(toLowerCase(text)) \in tripPlanVariants

\* mimeType.startsWith('image/')
IsImageMime(mimeType) == mimeType \in {"image/png", "image/jpeg"}

\* JavaScript truthiness of pendingImagePrompt (string | null)
Truthy(opt) == opt # None /\ opt[1] # << >>

\* text.substring(0, 40), cut at a token boundary
RECURSIVE Substring(_, _)
Substring(t, n) ==
  IF t = << >> \/ CharLen(Head(t)) > n THEN << >>
  ELSE <<Head(t)>> \o Substring(Tail(t), n - CharLen(Head(t)))

TitleLen == 40

\* fullResponse.replace(/!\[.*?\]\(.*?\)/g, ''): tokens "![", "](", ")" are the
\* delimiters of an inline image
RECURSIVE StripImageMarkdown(_)
StripImageMarkdown(t) ==
  LET opens == {i \in 1..Len(t) : t[i] = "![" /\
                  \E j \in (i + 1)..Len(t) : t[j] = "](" /\ \E k \in (j + 1)..Len(t) : t[k] = ")"}
  IN IF opens = {} THEN t
     ELSE LET i == Min(opens)
              j == Min({j \in (i + 1)..Len(t) : t[j] = "]("})
              k == Min({k \in (j + 1)..Len(t) : t[k] = ")"})
          IN SubSeq(t, 1, i - 1) \o StripImageMarkdown(SubSeq(t, k + 1, Len(t)))

\* A deduplication that keeps the first citation of a uri: C19 must reject it.
uniqueSources_FirstSeen(srcs) ==
  SelectSeqIdx(srcs, {i \in 1..Len(srcs) : \A j \in 1..(i - 1) : srcs[j].uri # srcs[i].uri})

\* Array.from(new Map(sources.map(s => [s.uri, s])).values()): one entry per uri,
\* at the place of its first occurrence, holding its last occurrence
uniqueSources(srcs) ==
  LET firsts == {i \in 1..Len(srcs) : \A j \in 1..(i - 1) : srcs[j].uri # srcs[i].uri}
      lastOf(i) == srcs[Max({j \in 1..Len(srcs) : srcs[j].uri = srcs[i].uri})]
      kept == SelectSeqIdx(srcs, firsts)
      idx == SelectSeqIdx([i \in 1..Len(srcs) |-> i], firsts)
  IN [n \in 1..Len(kept) |-> lastOf(idx[n])]

\* ------------------------------------------------------------------ state
VARIABLES
  sessions,            \* useState<ChatSession[]>
  activeSessionId,     \* useState<string | null>
  pendingImagePrompt,  \* useState<string | null>
  chatSessionRef,      \* useRef<Chat | null>: the handle's language and seed history
  userMessageCount,    \* useRef(0)
  now,                 \* the last value Date.now() returned
  inflight,            \* backend requests and timers not yet settled
  submitted,           \* the last payload given to handleSendMessage, with the state it met
  counters             \* events, close events and reloads so far and how many may come;
                       \* next request id and message uid

vars ==
  <<sessions, activeSessionId, pendingImagePrompt, chatSessionRef, userMessageCount,
    now, inflight, submitted, counters>>

\* ------------------------------------------------- state of LiveChatView
MaxMessages == 4        \* server messages of one live session
MaxTime == 3        \* last value of the playback clock
SampleDen == 20       \* a sample is a multiple of 1/SampleDen
MaxFrames == 2        \* audio frames the script processor delivers
MaxLiveClips == 1        \* clips received in the specification of the view's life

VARIABLES
  stage,                       \* useState<ChatStage> of App: LiveChatView is mounted in 'live-chat'
  status,                      \* useState: idle, connecting, connected, error, closed
  transcription,               \* useState: the turn records
  sessionRef,                  \* useRef: null or the session
  mediaStreamRef,              \* useRef: null, or the stream with its tracks live or stopped
  inputAudioContextRef,        \* useRef: null, or the context running or closed
  outputAudioContextRef,       \* useRef: null, or the context running or closed
  scriptProcessorRef,          \* useRef: null, or the node connected or disconnected
  sourcesRef,                  \* useRef(new Set()): the clips held, by their number
  nextStartTimeRef,            \* useRef(0)
  currentInputTranscription,   \* useRef('')
  currentOutputTranscription,  \* useRef('')
  connectPc,                   \* where the call of connect() stands
  connection,                  \* the connection made by ai.live.connect
  currentTime,                 \* outputAudioContext.currentTime
  decoding,                    \* onmessage calls suspended at await decodeAudioData, oldest first
  updateQueue,                 \* updaters given to setTranscription that React has not run yet
  clips,                       \* every buffer source created, in order of creation
  heard                        \* what the session has delivered so far

refVars ==
  <<sessionRef, mediaStreamRef, inputAudioContextRef, outputAudioContextRef, scriptProcessorRef>>

audioVars == <<sourcesRef, nextStartTimeRef, currentTime, decoding, clips>>

transcriptVars ==
  <<transcription, currentInputTranscription, currentOutputTranscription, updateQueue>>

liveVars ==
  <<stage, status, connectPc, connection, refVars, audioVars, transcriptVars, heard>>

\* messages, interruptions and completed turns received; the texts transcribed since
\* the last turnComplete and the kind of the last one; audio frames delivered:
\* in all, from live tracks after the cleanup ran, from live tracks while the
\* mounted view showed error or closed; the frames whose then-callback waits for
\* sessionPromise, and the calls of sendRealtimeInput in their order; of each frame
\* one sample, as captured and as stored in the Int16Array
NothingHeard ==
  [messages |-> 0, interruptions |-> 0, turns |-> 0, user |-> None, bot |-> << >>,
   last |-> "none", frames |-> 0, sent |-> 0, afterCleanup |-> 0, afterEnd |-> 0,
   cleanups |-> 0, attempts |-> 0, pending |-> << >>, sends |-> << >>, pcm |-> << >>]

\* the state before LiveChatView is rendered for the first time
LiveInit ==
  /\ stage = "chat"
  /\ status = "idle"
  /\ transcription = << >>
  /\ sessionRef = "null"
  /\ mediaStreamRef = "null"
  /\ inputAudioContextRef = "null"
  /\ outputAudioContextRef = "null"
  /\ scriptProcessorRef = "null"
  /\ sourcesRef = {}
  /\ nextStartTimeRef = 0
  /\ currentInputTranscription = << >>
  /\ currentOutputTranscription = << >>
  /\ connectPc = "idle"
  /\ connection = "none"
  /\ currentTime = 0
  /\ decoding = << >>
  /\ updateQueue = << >>
  /\ clips = << >>
  /\ heard = NothingHeard

\* ------------------------------------------------------------ session store
SessionIds(ss) == {ss[i].id : i \in DOMAIN ss}

\* sessions.find(s => s.id === id)
FindSession(ss, id) ==
  LET idx == {i \in DOMAIN ss : ss[i].id = id}
  IN IF idx = {} THEN None ELSE Some(ss[Min(idx)])

\* variant that looks for the progress notice among the messages that are not
\* system messages
IsSummarizing_NotSystem(m) == ~m.isSystem /\ m.text = <<"Summarizing...">>

\* m.isSystem && m.text === "Summarizing..."
IsSummarizing(m) == m.isSystem /\ m.text = <<"Summarizing...">>

\* the updater given to updateSessionMessages, applied to the latest message list
ApplyUpdate(u, prev) ==
  CASE u.op = "append" -> prev \o u.msgs
    [] u.op = "appendDropWelcome" ->
         SelectSeqIdx(prev, {i \in DOMAIN prev : ~prev[i].isWelcome}) \o u.msgs
    [] u.op = "appendOrReplaceWelcome" ->
         IF Len(prev) = 1 /\ prev[1].isWelcome THEN u.msgs ELSE prev \o u.msgs
    [] u.op = "replaceById" ->
         [i \in DOMAIN prev |->
            IF prev[i].id = u.id THEN [u.msg EXCEPT !.uid = prev[i].uid] ELSE prev[i]]
    [] u.op = "patchById" ->
         [i \in DOMAIN prev |->
            IF prev[i].id = u.id
            THEN [prev[i] EXCEPT !.text = u.text, !.isLoading = u.isLoading,
                                 !.videoState = IF u.videoState = "keep" THEN @ ELSE u.videoState]
            ELSE prev[i]]
    [] u.op = "dropSummarizing" ->
         SelectSeqIdx(prev, {i \in DOMAIN prev : ~IsSummarizing(prev[i])}) \o u.msgs

updateSessionMessages(ss, sessionId, u) ==
  [i \in DOMAIN ss |->
     IF ss[i].id = sessionId THEN [ss[i] EXCEPT !.messages = ApplyUpdate(u, @)] ELSE ss[i]]

\* startChat(languageCode, history)
startChat(languageCode, history) == [languageCode |-> languageCode, history |-> history]

UserTurns(ms) == Cardinality({i \in DOMAIN ms : ms[i].sender = "user"})

\* variant of the effect that does not run when another session becomes active
EffectRuns_OnlyOnUpdate(ss2, aid2, touched) ==
  /\ FindSession(ss2, aid2) # None
  /\ aid2 \in touched

\* The effect of lines 344-353, run after a render in which activeSession is a new
\* object: the active id changed, or the active session was rebuilt by an update.
EffectRuns(ss2, aid2, touched) ==
  /\ FindSession(ss2, aid2) # None
  /\ (aid2 # activeSessionId \/ aid2 \in touched)

\* state after the handler's updates are rendered; umc2 is userMessageCount as the
\* handler left it
Commit(ss2, aid2, touched, umc2) ==
  /\ sessions' = ss2
  /\ activeSessionId' = aid2
  /\ IF EffectRuns(ss2, aid2, touched)
     THEN LET a == FindSession(ss2, aid2)[1]
          IN /\ chatSessionRef' = Some(startChat(a.languageCode, geminiHistory(a.messages)))
             /\ userMessageCount' = UserTurns(a.messages) % 5
     ELSE /\ chatSessionRef' = chatSessionRef
          /\ userMessageCount' = umc2

\* activeLanguage: LANGUAGES.find(l => l.code === activeSession?.languageCode) || LANGUAGES[0]
activeLanguage ==
  LET a == FindSession(sessions, activeSessionId)
      idx == {i \in DOMAIN LANGUAGES : a # None /\ LANGUAGES[i].code = a[1].languageCode}
  IN IF idx = {} THEN LANGUAGES[1] ELSE LANGUAGES[Min(idx)]

\* n: which event the call was; pending, languageCode, sessionId: the pending prompt,
\* the active session and its language when the call was made
NoSubmission ==
  [n |-> 0, text |-> << >>, files |-> << >>, prompt |-> None, accepted |-> FALSE,
   pending |-> None, languageCode |-> "", sessionId |-> 0 - 1]

\* the state after the first mount, for a behaviour of at most maxEvents events of
\* which at most maxClose come close to the one before
Start(maxEvents, maxClose) ==
  /\ now = 0
  /\ sessions = <<NewSession(0, 0, "en-US", 0)>>
  /\ activeSessionId = 0
  /\ pendingImagePrompt = None
  /\ chatSessionRef = Some(startChat("en-US", << >>))
  /\ userMessageCount = 0
  /\ inflight = {}
  /\ submitted = NoSubmission
  /\ counters = [events |-> 0, close |-> 0, reloads |-> 0, rid |-> 1, uid |-> 1,
                 maxEvents |-> maxEvents, maxClose |-> maxClose]
  /\ LiveInit

Init == Start(MaxEvents, MaxClose)

\* ------------------------------------------------------------- requests
\* one backend call that has not settled: its closure (sessionId, botMessageId,
\* languageCode of the session when it was issued), what was sent, and how far
\* the reply has come; received lists the chunks the stream has delivered, uid is
\* the uid of the placeholder the handler created for it
Request(kind, botMessageId, args) ==
  [rid |-> counters.rid, kind |-> kind, sessionId |-> activeSessionId,
   botMessageId |-> botMessageId, args |-> args, fullResponse |-> << >>,
   sources |-> << >>, chunks |-> 0, polls |-> 0, phase |-> "called",
   received |-> << >>, uid |-> counters.uid + 1]

Loading(id, uid) == [Msg(id, << >>, "bot") EXCEPT !.isLoading = TRUE, !.uid = uid]

\* `Certainly! I will now respond in ${targetLanguage.name}.`
ConfirmationText(name) ==
  <<"Certainly!", SP, "I", SP, "will", SP, "now", SP, "respond", SP, "in", SP, name, ".">>

\* ART_STYLES.map(style => ({ text: style, icon: PaletteIcon }))
artStyleSuggestions == [i \in DOMAIN ART_STYLES |-> [text |-> ART_STYLES[i], prompt |-> None]]

StyleQuestionText == <<"Sounds creative! Which art style would you like?">>

\* a handler's synchronous part: the session list, the pending prompt and the turn
\* counter it leaves, the backend calls it made, the messages it created
Outcome(ss2, pending2, requests, umc2, created) ==
  [sessions |-> ss2, pending |-> pending2, requests |-> requests,
   userMessageCount |-> umc2, created |-> created]

\* A language switch that also asks the backend for a reply: C4 must reject it.
LanguageSwitch_ViaChat(p, targetLanguage, t1, t2) ==
  LET userMessage == [Msg(t1, p.text, "user") EXCEPT !.uid = counters.uid]
      s1 == updateSessionMessages(sessions, activeSessionId,
              [op |-> "appendDropWelcome", msgs |-> <<userMessage>>])
      s2 == [i \in DOMAIN s1 |->
               IF s1[i].id = activeSessionId
               THEN [s1[i] EXCEPT !.languageCode = targetLanguage.code] ELSE s1[i]]
      s3 == updateSessionMessages(s2, activeSessionId,
              [op |-> "append", msgs |-> <<Loading(t2 + 1, counters.uid + 1)>>])
  IN Outcome(s3, pendingImagePrompt,
             {Request("sendMessage", t2 + 1,
                      [chat |-> chatSessionRef, promptText |-> p.text,
                       imageParts |-> << >>, languageCode |-> targetLanguage.code])},
             userMessageCount, 2)

\* lines 531-548: t1, t2 are the two Date.now() reads
LanguageSwitch(p, targetLanguage, t1, t2) ==
  LET userMessage == [Msg(t1, p.text, "user") EXCEPT !.uid = counters.uid]
      s1 == updateSessionMessages(sessions, activeSessionId,
              [op |-> "appendDropWelcome", msgs |-> <<userMessage>>])
      s2 == [i \in DOMAIN s1 |->
               IF s1[i].id = activeSessionId
               THEN [s1[i] EXCEPT !.languageCode = targetLanguage.code] ELSE s1[i]]
      confirmationMessage ==
        [Msg(t2 + 1, ConfirmationText(targetLanguage.name), "bot") EXCEPT !.uid = counters.uid + 1]
      s3 == updateSessionMessages(s2, activeSessionId,
              [op |-> "append", msgs |-> <<confirmationMessage>>])
  IN Outcome(s3, pendingImagePrompt, {}, userMessageCount, 2)

\* An image generation that drops the chosen style from the prompt: C8 must reject it.
handleImageGeneration_NoStyle(prompt, style, t1, t2) ==
  LET botMessageId == t1 + 1
      s1 == updateSessionMessages(sessions, activeSessionId,
              [op |-> "append",
               msgs |-> <<[Msg(t2, style, "user") EXCEPT !.uid = counters.uid],
                          Loading(botMessageId, counters.uid + 1)>>])
  IN Outcome(s1, None, {Request("generateImage", botMessageId, [prompt |-> prompt])},
             userMessageCount, 2)

\* lines 430-439 (the synchronous part of handleImageGeneration), called from 553-554
handleImageGeneration(prompt, style, t1, t2) ==
  LET finalPrompt == <<"A", SP>> \o toLowerCase(style) \o <<SP, "of:", SP>> \o prompt
      botMessageId == t1 + 1
      botMessagePlaceholder == Loading(botMessageId, counters.uid + 1)
      userStyleMessage == [Msg(t2, style, "user") EXCEPT !.uid = counters.uid]
      s1 == updateSessionMessages(sessions, activeSessionId,
              [op |-> "append", msgs |-> <<userStyleMessage, botMessagePlaceholder>>])
  IN Outcome(s1, None, {Request("generateImage", botMessageId, [prompt |-> finalPrompt])},
             userMessageCount, 2)

\* lines 470-481 (the synchronous part of handleImageEdit), called from 561
handleImageEdit(text, file, t1, t2) ==
  LET userMessage ==
        [Msg(t1, <<"(Edit Prompt: ">> \o text \o <<")">>, "user") EXCEPT
           !.files = <<file>>, !.uid = counters.uid]
      botMessageId == t2 + 1
      botMessagePlaceholder == Loading(botMessageId, counters.uid + 1)
      s1 == updateSessionMessages(sessions, activeSessionId,
              [op |-> "appendOrReplaceWelcome", msgs |-> <<userMessage, botMessagePlaceholder>>])
  IN Outcome(s1, None, {Request("editImage", botMessageId, [file |-> file, prompt |-> text])},
             userMessageCount, 2)

\* An intent that generates at once instead of asking for a style: C7 must reject it.
ImageGenerationIntent_Immediate(p, t1, t2) ==
  LET userMessage == [Msg(t1, p.text, "user") EXCEPT !.uid = counters.uid]
      s1 == updateSessionMessages(sessions, activeSessionId,
              [op |-> "appendDropWelcome",
               msgs |-> <<userMessage, Loading(t2 + 1, counters.uid + 1)>>])
  IN Outcome(s1, None, {Request("generateImage", t2 + 1, [prompt |-> p.text])},
             userMessageCount, 2)

\* lines 568-575
ImageGenerationIntent(p, t1, t2) ==
  LET userMessage == [Msg(t1, p.text, "user") EXCEPT !.uid = counters.uid]
      botMessage ==
        [Msg(t2 + 1, StyleQuestionText, "bot") EXCEPT
           !.suggestions = artStyleSuggestions, !.uid = counters.uid + 1]
      s1 == updateSessionMessages(sessions, activeSessionId,
              [op |-> "appendDropWelcome", msgs |-> <<userMessage, botMessage>>])
  IN Outcome(s1, Some(p.text), {}, userMessageCount, 2)

\* A trip plan that is fetched from the backend: C6 must reject it.
TripPlanShortcut_ViaBackend(p, cs, t1, t2) ==
  LET userMessage == [Msg(t1, p.text, "user") EXCEPT !.uid = counters.uid]
      s1 == updateSessionMessages(sessions, activeSessionId,
              [op |-> "appendOrReplaceWelcome",
               msgs |-> <<userMessage, Loading(t2 + 1, counters.uid + 1)>>])
  IN Outcome(s1, None,
             {Request("sendMessage", t2 + 1,
                      [chat |-> chatSessionRef, promptText |-> p.text,
                       imageParts |-> << >>, languageCode |-> cs.languageCode])},
             userMessageCount, 2)

\* lines 579-587
TripPlanShortcut(p, cs, t1, t2) ==
  LET userMessage == [Msg(t1, p.text, "user") EXCEPT !.uid = counters.uid]
      botResponse ==
        [Msg(t2 + 1, IF cs.languageCode \in LanguageCodes
                     THEN TRIP_PLAN_PROMPT(cs.languageCode)
                     ELSE TRIP_PLAN_PROMPT("en-US"), "bot") EXCEPT !.uid = counters.uid + 1]
      s1 == updateSessionMessages(sessions, activeSessionId,
              [op |-> "appendOrReplaceWelcome", msgs |-> <<userMessage, botResponse>>])
  IN Outcome(s1, None, {}, userMessageCount, 2)

\* lines 609-615: prompt || text, then one context prefix per plain-text file
RECURSIVE WithFileContext(_, _)
WithFileContext(promptText, files) ==
  IF files = << >> THEN promptText
  ELSE WithFileContext(
         IF Head(files).mimeType = "text/plain"
         THEN <<"Context from file ", Head(files).name, ":", Head(files).data, "My question: ">>
              \o promptText
         ELSE promptText,
         Tail(files))

\* lines 590-617 (up to the await of the stream)
DefaultChat(p, cs, t1, t2) ==
  LET userMessage ==
        [Msg(t1, p.text, "user") EXCEPT !.files = p.files, !.uid = counters.uid]
      botMessageId == t2 + 1
      botMessagePlaceholder == Loading(botMessageId, counters.uid + 1)
      isFirstUserMessage == UserTurns(cs.messages) = 0
      s0 == IF isFirstUserMessage
            THEN [i \in DOMAIN sessions |->
                    IF sessions[i].id = activeSessionId
                    THEN [sessions[i] EXCEPT !.title = Substring(p.text, TitleLen)]
                    ELSE sessions[i]]
            ELSE sessions
      s1 == updateSessionMessages(s0, activeSessionId,
              [op |-> "appendOrReplaceWelcome", msgs |-> <<userMessage, botMessagePlaceholder>>])
      promptText ==
        WithFileContext(IF Truthy(p.prompt) THEN p.prompt[1] ELSE p.text, p.files)
      imageParts == SelectSeqIdx(p.files, {i \in DOMAIN p.files : IsImageMime(p.files[i].mimeType)})
  IN Outcome(s1, None,
             {Request("sendMessage", botMessageId,
                      [chat |-> chatSessionRef, promptText |-> promptText,
                       imageParts |-> imageParts, languageCode |-> cs.languageCode])},
             userMessageCount + 1, 2)

\* A router that tests the image-generation intent before the language switch:
\* C1 must reject it.
Router_IntentFirst(p, cs, t1, t2) ==
  LET match == langChangeMatch(p.text)
      targetLanguage == findLanguageByName(match[1])
  IN IF imageGenRegex(p.text) /\ ~imageGenBlockRegex(p.text) /\ Len(p.files) = 0
     THEN ImageGenerationIntent(p, t1, t2)
     ELSE IF match # None /\ targetLanguage.code # cs.languageCode
     THEN LanguageSwitch(p, targetLanguage, t1, t2)
     ELSE IF Truthy(pendingImagePrompt) /\ p.text \in ArtStyleSet
     THEN handleImageGeneration(pendingImagePrompt[1], p.text, t1, t2)
     ELSE IF Len(p.files) = 1 /\ IsImageMime(p.files[1].mimeType) /\ trim(p.text) # << >>
     THEN handleImageEdit(p.text, p.files[1], t1, t2)
     ELSE IF isTripPlan(p.text) /\ Len(p.files) = 0
     THEN TripPlanShortcut(p, cs, t1, t2)
     ELSE DefaultChat(p, cs, t1, t2)

\* lines 522-604: the router, first match wins
Router(p, cs, t1, t2) ==
  LET match == langChangeMatch(p.text)
      targetLanguage == findLanguageByName(match[1])
  IN IF match # None /\ targetLanguage.code # cs.languageCode
     THEN LanguageSwitch(p, targetLanguage, t1, t2)
     ELSE IF Truthy(pendingImagePrompt) /\ p.text \in ArtStyleSet
     THEN handleImageGeneration(pendingImagePrompt[1], p.text, t1, t2)
     ELSE IF Len(p.files) = 1 /\ IsImageMime(p.files[1].mimeType) /\ trim(p.text) # << >>
     THEN handleImageEdit(p.text, p.files[1], t1, t2)
     ELSE IF imageGenRegex(p.text) /\ ~imageGenBlockRegex(p.text) /\ Len(p.files) = 0
     THEN ImageGenerationIntent(p, t1, t2)
     ELSE IF isTripPlan(p.text) /\ Len(p.files) = 0
     THEN TripPlanShortcut(p, cs, t1, t2)
     ELSE DefaultChat(p, cs, t1, t2)

\* ------------------------------------------------------------------ clock
\* An event reads Date.now() d ms after the last read, and again e ms later.  Most
\* events come MaxGap ms or more after the last one; at most MaxClose come closer.
Event(d, e) ==
  /\ counters.events < counters.maxEvents
  /\ (d < MaxGap \/ e > 0) => counters.close < counters.maxClose

Counted(d, e, requests, created) ==
  [counters EXCEPT !.events = @ + 1,
                   !.close = @ + (IF d < MaxGap \/ e > 0 THEN 1 ELSE 0),
                   !.rid = @ + requests, !.uid = @ + created]

\* --------------------------------------------------------------- inputs
IMG == [name |-> "beach.png", mimeType |-> "image/png", data |-> "base64"]
TXT == [name |-> "notes.txt", mimeType |-> "text/plain", data |-> "notes"]

Payload(text, files) == [text |-> text, files |-> files, prompt |-> None]

\* what the input box and the suggestion chips can hand to handleSendMessage
Payloads ==
  { Payload(<< >>, << >>),
    Payload(<<SP>>, << >>),
    Payload(<<"hello">>, << >>),
    Payload(<< >>, <<IMG>>),
    Payload(W(<<"make", "it", "blue">>), <<IMG>>),
    Payload(W(<<"make", "it", "blue">>), <<IMG, IMG>>),
    Payload(W(<<"switch", "to", "Hindi">>), << >>),
    Payload(W(<<"switch", "to", "Hindi">>), <<IMG>>),
    Payload(W(<<"Draw", "a", "cat", "in", "Hindi">>), << >>),
    Payload(W(<<"respond", "in", "English">>), << >>),
    Payload(W(<<"generate", "a", "sunset">>), << >>),
    Payload(W(<<"How", "to", "draw", "a", "cat">>), << >>),
    Payload(<<"Watercolor">>, << >>),
    Payload(<<"Watercolor">>, <<IMG>>),
    Payload(<<"Sketch">>, << >>),
    Payload(W(<<"Trip", "Plan">>), << >>),
    Payload(<<SP, "yatra", SP, "yojana", SP>>, << >>),
    Payload(W(<<"Trip", "Plan">>), <<TXT>>),
    [text |-> <<"Briefing", "en-US">>, files |-> << >>,
     prompt |-> Some(TODAYS_BRIEFING_PROMPT("en-US"))] }

\* ----------------------------------------------------- handleSendMessage
\* lines 512-617: one call, up to its first await
HandleSendMessage(p, d, e) ==
  LET cs == FindSession(sessions, activeSessionId)
      t1 == now + d
      t2 == t1 + e
  IN /\ Event(d, e)
     /\ IF (trim(p.text) = << >> /\ Len(p.files) = 0) \/ cs = None
        THEN /\ d = MaxGap /\ e = 0
             /\ submitted' = [NoSubmission EXCEPT !.n = counters.events + 1,
                                !.text = p.text, !.files = p.files,
                                !.prompt = p.prompt, !.pending = pendingImagePrompt,
                                !.sessionId = activeSessionId]
             /\ counters' = Counted(d, e, 0, 0)
             /\ UNCHANGED <<sessions, activeSessionId, pendingImagePrompt, chatSessionRef,
                            userMessageCount, now, inflight>>
        ELSE LET o == Router(p, cs[1], t1, t2)
             IN /\ Commit(o.sessions, activeSessionId, {activeSessionId}, o.userMessageCount)
                /\ pendingImagePrompt' = o.pending
                /\ inflight' = inflight \cup o.requests
                /\ now' = t2
                /\ submitted' = [n |-> counters.events + 1,
                                 text |-> p.text, files |-> p.files, prompt |-> p.prompt,
                                 accepted |-> TRUE, pending |-> pendingImagePrompt,
                                 languageCode |-> cs[1].languageCode,
                                 sessionId |-> activeSessionId]
                /\ counters' = Counted(d, e, Cardinality(o.requests), o.created)

\* ------------------------------------------------------- chat stream events
Source(uri, title) == [uri |-> uri, title |-> title]

\* the chunks a stream delivers, in turn: text with an inline image and a trailing
\* space and three citations, then plain text and one citation
Stream ==
  << [text |-> <<"Om", SP, "![", "pic", "](", "u", ")", "beach", SP>>,
      sources |-> <<Source("u1", "A"), Source("u2", "B"), Source("u1", "C")>>],
     [text |-> <<"road", SP>>, sources |-> <<Source("u2", "D")>>] >>

Chunks == {Stream[i] : i \in DOMAIN Stream}

FailureNotice == <<"Sorry, I encountered an error. Please try again.">>

\* lines 620-639: one iteration of the for-await loop
ChatChunk(r, c) ==
  LET fullResponse == r.fullResponse \o c.text
      s1 == updateSessionMessages(sessions, r.sessionId,
              [op |-> "patchById", id |-> r.botMessageId, text |-> fullResponse,
               isLoading |-> TRUE, videoState |-> "keep"])
  IN /\ r.kind = "sendMessage"
     /\ r.args.chat # None
     /\ r.chunks < MaxChunks
     /\ c = Stream[(r.chunks % Len(Stream)) + 1]
     /\ inflight' = (inflight \ {r}) \cup
                    {[r EXCEPT !.fullResponse = fullResponse,
                               !.sources = @ \o c.sources, !.chunks = @ + 1,
                               !.phase = "streaming", !.received = Append(@, c)]}
     /\ Commit(s1, activeSessionId, {r.sessionId}, userMessageCount)
     /\ UNCHANGED <<pendingImagePrompt, now, submitted, counters>>

\* lines 641-653: the stream ended
ChatComplete(r) ==
  LET cleanedText == trim(StripImageMarkdown(r.fullResponse))
      finalBotMessage ==
        [Msg(r.botMessageId, cleanedText, "bot") EXCEPT !.sources = uniqueSources(r.sources)]
      s1 == updateSessionMessages(sessions, r.sessionId,
              [op |-> "replaceById", id |-> r.botMessageId, msg |-> finalBotMessage])
      tipDue == userMessageCount >= 5
  IN /\ r.kind = "sendMessage"
     /\ r.args.chat # None
     /\ inflight' = (inflight \ {r}) \cup
                    (IF tipDue
                     THEN {[r EXCEPT !.kind = "tipTimer", !.phase = "waiting"]}
                     ELSE {})
     /\ Commit(s1, activeSessionId, {r.sessionId}, IF tipDue THEN 0 ELSE userMessageCount)
     /\ UNCHANGED <<pendingImagePrompt, now, submitted, counters>>

\* A failure that puts the notice after the text streamed so far: C20 must reject it.
ChatFail_KeepsText(r) ==
  /\ r.kind = "sendMessage"
  /\ inflight' = inflight \ {r}
  /\ Commit(updateSessionMessages(sessions, r.sessionId,
              [op |-> "patchById", id |-> r.botMessageId,
               text |-> r.fullResponse \o FailureNotice,
               isLoading |-> FALSE, videoState |-> "keep"]),
            activeSessionId, {r.sessionId}, userMessageCount)
  /\ UNCHANGED <<pendingImagePrompt, now, submitted, counters>>

\* lines 655-658: the handle was missing, the call or the stream raised
ChatFail(r) ==
  LET s1 == updateSessionMessages(sessions, r.sessionId,
              [op |-> "patchById", id |-> r.botMessageId, text |-> FailureNotice,
               isLoading |-> FALSE, videoState |-> "keep"])
  IN /\ r.kind = "sendMessage"
     /\ inflight' = inflight \ {r}
     /\ Commit(s1, activeSessionId, {r.sessionId}, userMessageCount)
     /\ UNCHANGED <<pendingImagePrompt, now, submitted, counters>>

\* ------------------------------------------- image generation and edit
ImageOutcomes == {"image", "text", "blank", "blockSafety", "blockOther", "throw"}

ImageSuccessText(kind) ==
  IF kind = "generateImage" THEN <<"Here is the image I generated for you:">>
  ELSE <<"Here's the edited image:">>

\* lines 460-465 and 502-507: the user-facing text of a failure
ImageFailureText(kind, outcome) ==
  IF kind = "generateImage"
  THEN CASE outcome = "blockSafety" -> <<"I'm unable to create an image for that request as it appears to violate safety guidelines.">>
         [] outcome = "blank" -> <<"It seems I had trouble creating an image for that prompt.">>
         [] outcome = "blockOther" -> <<"I'm unable to create an image for that request because it was blocked.">>
         [] OTHER -> <<"Sorry, I couldn't generate the image. Please try a different prompt.">>
  ELSE CASE outcome = "blockSafety" -> <<"I'm unable to edit the image with that request as it appears to violate safety guidelines.">>
         [] outcome = "blank" -> <<"It seems I had trouble editing the image with that prompt.">>
         [] outcome = "blockOther" -> <<"I'm unable to edit the image with that request because it was blocked.">>
         [] OTHER -> <<"Sorry, I couldn't edit the image. Please try a different prompt or image.">>

\* lines 439-467 and 481-509: the await of generateImage / editImage returned or raised
ImageSettle(r, outcome) ==
  LET u == CASE outcome = "image" ->
                  [op |-> "replaceById", id |-> r.botMessageId,
                   msg |-> [Msg(r.botMessageId, ImageSuccessText(r.kind), "bot") EXCEPT
                              !.images = <<"data:image/png;base64,...">>]]
             [] outcome = "text" ->
                  [op |-> "replaceById", id |-> r.botMessageId,
                   msg |-> Msg(r.botMessageId, <<"explanation">>, "bot")]
             [] OTHER ->
                  [op |-> "patchById", id |-> r.botMessageId,
                   text |-> ImageFailureText(r.kind, outcome), isLoading |-> FALSE,
                   videoState |-> "keep"]
      s1 == updateSessionMessages(sessions, r.sessionId, u)
  IN /\ r.kind \in {"generateImage", "editImage"}
     /\ inflight' = inflight \ {r}
     /\ Commit(s1, activeSessionId, {r.sessionId}, userMessageCount)
     /\ UNCHANGED <<pendingImagePrompt, now, submitted, counters>>

\* ------------------------------------------------------- video generation
VideoPrompt == <<"A cinematic shot of this scene.">>

\* lines 661-672: handleVideoGeneration up to the await of generateVideo
HandleVideoGeneration(file, prompt, d, e) ==
  LET t1 == now + d
      t2 == t1 + e
      userMessage ==
        [Msg(t1, <<"(Video Prompt: ">> \o prompt \o <<")">>, "user") EXCEPT
           !.files = <<file>>, !.uid = counters.uid]
      botMessageId == t2 + 1
      botMessagePlaceholder ==
        [Loading(botMessageId, counters.uid + 1) EXCEPT !.videoState = "generating"]
      s1 == updateSessionMessages(sessions, activeSessionId,
              [op |-> "appendOrReplaceWelcome", msgs |-> <<userMessage, botMessagePlaceholder>>])
  IN /\ Event(d, e)
     /\ Commit(s1, activeSessionId, {activeSessionId}, userMessageCount)
     /\ inflight' = inflight \cup
                    {Request("generateVideo", botMessageId, [file |-> file, prompt |-> prompt])}
     /\ now' = t2
     /\ counters' = Counted(d, e, 1, 2)
     /\ UNCHANGED <<pendingImagePrompt, submitted>>

\* generateVideo, lines 61-79 of the service: the job or a poll reports "not done"
VideoNotDone(r) ==
  /\ r.kind = "generateVideo"
  /\ r.polls < MaxPolls
  /\ inflight' = (inflight \ {r}) \cup {[r EXCEPT !.polls = @ + 1, !.phase = "polling"]}
  /\ UNCHANGED <<sessions, activeSessionId, pendingImagePrompt, chatSessionRef,
                 userMessageCount, now, submitted, counters>>

\* the job reports done: lines 81-88 of the service, then 673-674 or 675-678
VideoDone(r, hasUri) ==
  LET u == IF hasUri
           THEN [op |-> "replaceById", id |-> r.botMessageId,
                 msg |-> [Msg(r.botMessageId, <<"Here is the generated video:">>, "bot") EXCEPT
                            !.videoState = "done", !.videoUrl = Some("uri&key=API_KEY")]]
           ELSE [op |-> "patchById", id |-> r.botMessageId,
                 text |-> <<"Sorry, I couldn't generate the video. Error: ",
                            "Video generation completed but no download link was found.">>,
                 isLoading |-> FALSE, videoState |-> "failed"]
      s1 == updateSessionMessages(sessions, r.sessionId, u)
  IN /\ r.kind = "generateVideo"
     /\ inflight' = inflight \ {r}
     /\ Commit(s1, activeSessionId, {r.sessionId}, userMessageCount)
     /\ UNCHANGED <<pendingImagePrompt, now, submitted, counters>>

\* the submission or a poll raised: lines 675-678
VideoThrow(r) ==
  LET s1 == updateSessionMessages(sessions, r.sessionId,
              [op |-> "patchById", id |-> r.botMessageId,
               text |-> <<"Sorry, I couldn't generate the video. Error: ", "error.message">>,
               isLoading |-> FALSE, videoState |-> "failed"])
  IN /\ r.kind = "generateVideo"
     /\ inflight' = inflight \ {r}
     /\ Commit(s1, activeSessionId, {r.sessionId}, userMessageCount)
     /\ UNCHANGED <<pendingImagePrompt, now, submitted, counters>>

\* --------------------------------------------------- session operations
\* lines 368-380
HandleNewChat(d, e) ==
  LET newSession == NewSession(now + d, now + d + e, activeLanguage.code, counters.uid)
  IN /\ Event(d, e)
     /\ Commit(Append(sessions, newSession), newSession.id, {}, userMessageCount)
     /\ now' = now + d + e
     /\ counters' = Counted(d, e, 0, 1)
     /\ UNCHANGED <<pendingImagePrompt, inflight, submitted>>

\* lines 382-385
HandleSelectSession(sessionId) ==
  /\ Event(MaxGap, 0)
  /\ sessionId \in SessionIds(sessions)
  /\ sessionId # activeSessionId
  /\ Commit(sessions, sessionId, {}, userMessageCount)
  /\ counters' = Counted(MaxGap, 0, 0, 0)
  /\ UNCHANGED <<pendingImagePrompt, now, inflight, submitted>>

\* lines 387-407
HandleDeleteSession(sessionId, d, e) ==
  LET remainingSessions == SelectSeqIdx(sessions, {i \in DOMAIN sessions : sessions[i].id # sessionId})
      newSession == NewSession(now + d, now + d + e, "en-US", counters.uid)
      fresh == activeSessionId = sessionId /\ remainingSessions = << >>
  IN /\ Event(d, e)
     /\ sessionId \in SessionIds(sessions)
     /\ IF activeSessionId = sessionId
        THEN IF remainingSessions # << >>
             THEN /\ d = MaxGap /\ e = 0
                  /\ Commit(remainingSessions, remainingSessions[1].id, {}, userMessageCount)
                  /\ now' = now
             ELSE /\ Commit(<<newSession>>, newSession.id, {newSession.id}, userMessageCount)
                  /\ now' = now + d + e
        ELSE /\ d = MaxGap /\ e = 0
             /\ Commit(remainingSessions, activeSessionId, {}, userMessageCount)
             /\ now' = now
     /\ counters' = Counted(d, e, 0, IF fresh THEN 1 ELSE 0)
     /\ UNCHANGED <<pendingImagePrompt, inflight, submitted>>

RenamedTitle == <<"Gokarna">>

\* lines 409-414
HandleRenameSession(sessionId, newTitle) ==
  /\ Event(MaxGap, 0)
  /\ sessionId \in SessionIds(sessions)
  /\ trim(newTitle) # << >>
  /\ Commit([i \in DOMAIN sessions |->
               IF sessions[i].id = sessionId
               THEN [sessions[i] EXCEPT !.title = trim(newTitle)] ELSE sessions[i]],
            activeSessionId, {sessionId}, userMessageCount)
  /\ counters' = Counted(MaxGap, 0, 0, 0)
  /\ UNCHANGED <<pendingImagePrompt, now, inflight, submitted>>

\* lines 416-428
HandleClearAllSessions(d, e) ==
  LET newSession == NewSession(now + d, now + d + e, "en-US", counters.uid)
  IN /\ Event(d, e)
     /\ Commit(<<newSession>>, newSession.id, {newSession.id}, userMessageCount)
     /\ now' = now + d + e
     /\ counters' = Counted(d, e, 0, 1)
     /\ UNCHANGED <<pendingImagePrompt, inflight, submitted>>

LocationNotice == <<"Could not access your location. Nearby search will be less accurate.">>

\* lines 337-341, called by the geolocation and microphone callbacks
AddSystemMessage(text, d) ==
  LET systemMessage == [Msg(now + d, text, "bot") EXCEPT !.isSystem = TRUE, !.uid = counters.uid]
  IN /\ Event(d, 0)
     /\ Commit(updateSessionMessages(sessions, activeSessionId,
                 [op |-> "append", msgs |-> <<systemMessage>>]),
               activeSessionId, {activeSessionId}, userMessageCount)
     /\ now' = now + d
     /\ counters' = Counted(d, 0, 0, 1)
     /\ UNCHANGED <<pendingImagePrompt, inflight, submitted>>

\* ------------------------------------------------------------ summarize
SummaryFailureNotice == <<"Sorry, I couldn't summarize that. Please try again.">>

\* the heading of line 691 followed by what summarizeText returned
SummaryText == <<"**Summary**", "summary">>

\* lines 682-688: handleSummarize up to the await of summarizeText; tempId is read
\* at t1, the id of the progress notice at t2
HandleSummarize(textToSummarize, d, e) ==
  LET t1 == now + d
      t2 == t1 + e
      systemMessage == [Msg(t2, <<"Summarizing...">>, "bot") EXCEPT
                          !.isSystem = TRUE, !.uid = counters.uid]
      s1 == updateSessionMessages(sessions, activeSessionId,
              [op |-> "append", msgs |-> <<systemMessage>>])
  IN /\ Event(d, e)
     /\ Commit(s1, activeSessionId, {activeSessionId}, userMessageCount)
     /\ inflight' = inflight \cup
                    {[Request("summarize", t1, [text |-> textToSummarize]) EXCEPT
                        !.uid = counters.uid]}
     /\ now' = t2
     /\ counters' = Counted(d, e, 1, 1)
     /\ UNCHANGED <<pendingImagePrompt, submitted>>

\* the await of summarizeText returned (lines 689-697) or raised (lines 698-704);
\* either way Date.now() is read once more, d ms after the last read
SummarizeSettle(r, outcome, d) ==
  LET t == now + d
      summaryMessage == [Msg(t, SummaryText, "bot") EXCEPT !.uid = counters.uid]
      systemMessage == [Msg(t, SummaryFailureNotice, "bot") EXCEPT
                          !.isSystem = TRUE, !.uid = counters.uid]
      s1 == IF outcome = "summary"
            THEN updateSessionMessages(sessions, r.sessionId,
                   [op |-> "dropSummarizing", msgs |-> <<summaryMessage>>])
            ELSE updateSessionMessages(
                   updateSessionMessages(sessions, r.sessionId,
                     [op |-> "dropSummarizing", msgs |-> << >>]),
                   r.sessionId, [op |-> "append", msgs |-> <<systemMessage>>])
  IN /\ r.kind = "summarize"
     /\ d < MaxGap => counters.close < counters.maxClose
     /\ inflight' = inflight \ {r}
     /\ Commit(s1, activeSessionId, {r.sessionId}, userMessageCount)
     /\ now' = t
     /\ counters' = [counters EXCEPT !.close = @ + (IF d < MaxGap THEN 1 ELSE 0),
                                     !.uid = @ + 1]
     /\ UNCHANGED <<pendingImagePrompt, submitted>>

\* The page is reloaded: lines 259-286 run on what lines 289-296 saved.  Every
\* pending request and timer of the old page is gone.
Reload ==
  LET savedSessions == sessions
      activeSession == IF FindSession(savedSessions, activeSessionId) # None
                       THEN FindSession(savedSessions, activeSessionId)[1]
                       ELSE savedSessions[1]
  IN /\ Event(MaxGap, 0)
     /\ counters.reloads < MaxReloads
     /\ sessions' = savedSessions
     /\ activeSessionId' = activeSession.id
     /\ chatSessionRef' = Some(startChat(activeSession.languageCode,
                                         geminiHistory(activeSession.messages)))
     /\ userMessageCount' = UserTurns(activeSession.messages) % 5
     /\ pendingImagePrompt' = None
     /\ inflight' = {}
     /\ counters' = [Counted(MaxGap, 0, 0, 0) EXCEPT !.reloads = @ + 1]
     /\ UNCHANGED <<now, submitted>>

\* ------------------------------------------------------------------ Next
Next ==
  \/ \E p \in Payloads : \E d \in 0..MaxGap : \E e \in 0..MaxMid : HandleSendMessage(p, d, e) /\ UNCHANGED liveVars
  \/ \E d \in 0..MaxGap : \E e \in 0..MaxMid : HandleVideoGeneration(IMG, VideoPrompt, d, e) /\ UNCHANGED liveVars
  \/ \E r \in inflight : \E c \in Chunks : ChatChunk(r, c) /\ UNCHANGED liveVars
  \/ \E r \in inflight : ChatComplete(r) /\ UNCHANGED liveVars
  \/ \E r \in inflight : ChatFail(r) /\ UNCHANGED liveVars
  \/ \E r \in inflight : \E outcome \in ImageOutcomes : ImageSettle(r, outcome) /\ UNCHANGED liveVars
  \/ \E r \in inflight : VideoNotDone(r) /\ UNCHANGED liveVars
  \/ \E r \in inflight : \E hasUri \in BOOLEAN : VideoDone(r, hasUri) /\ UNCHANGED liveVars
  \/ \E r \in inflight : VideoThrow(r) /\ UNCHANGED liveVars
  \/ \E d \in 0..MaxGap : \E e \in 0..MaxMid : HandleNewChat(d, e) /\ UNCHANGED liveVars
  \/ \E sessionId \in SessionIds(sessions) : HandleSelectSession(sessionId) /\ UNCHANGED liveVars
  \/ \E sessionId \in SessionIds(sessions) : \E d \in 0..MaxGap : \E e \in 0..MaxMid :
        HandleDeleteSession(sessionId, d, e) /\ UNCHANGED liveVars
  \/ \E sessionId \in SessionIds(sessions) : HandleRenameSession(sessionId, RenamedTitle) /\ UNCHANGED liveVars
  \/ \E d \in 0..MaxGap : \E e \in 0..MaxMid : HandleClearAllSessions(d, e) /\ UNCHANGED liveVars
  \/ \E d \in 0..MaxGap : AddSystemMessage(LocationNotice, d) /\ UNCHANGED liveVars
  \/ Reload /\ UNCHANGED liveVars

Spec == Init /\ [][Next]_vars

\* ----------------------------------------------- a session of default turns
\* MaxTurns default submissions in the first session, MaxGap ms apart; a stream
\* ends or raises before its first chunk
TipInit == Start(MaxTurns, 0)

TipNext ==
  \/ HandleSendMessage(Payload(<<"hello">>, << >>), MaxGap, 0) /\ UNCHANGED liveVars
  \/ \E r \in inflight : ChatComplete(r) /\ UNCHANGED liveVars
  \/ \E r \in inflight : ChatFail(r) /\ UNCHANGED liveVars

TipSpec == TipInit /\ [][TipNext]_vars

\* ------------------------------------- results that arrive in a session left
\* MaxLateEvents events: default submissions, a language switch, and the session
\* operations by which the user leaves a session while its streams are open
LateInit == Start(MaxLateEvents, MaxClose)

LateNext ==
  \/ \E d \in 0..MaxGap : \E e \in 0..MaxMid :
        HandleSendMessage(Payload(<<"hello">>, << >>), d, e) /\ UNCHANGED liveVars
  \/ \E r \in inflight : \E c \in Chunks : ChatChunk(r, c) /\ UNCHANGED liveVars
  \/ \E r \in inflight : ChatComplete(r) /\ UNCHANGED liveVars
  \/ \E r \in inflight : ChatFail(r) /\ UNCHANGED liveVars
  \/ HandleSendMessage(Payload(W(<<"switch", "to", "Hindi">>), << >>), MaxGap, 0) /\ UNCHANGED liveVars
  \/ HandleNewChat(MaxGap, 0) /\ UNCHANGED liveVars
  \/ \E sessionId \in SessionIds(sessions) : HandleSelectSession(sessionId) /\ UNCHANGED liveVars
  \/ \E sessionId \in SessionIds(sessions) : HandleDeleteSession(sessionId, MaxGap, 0) /\ UNCHANGED liveVars

LateSpec == LateInit /\ [][LateNext]_vars

\* --------------------------------- an image request, a style, another session
\* MaxPendingEvents events, MaxGap ms apart: an image request, a style name or a
\* plain message, and the session operations that make another session active
PendingInit == Start(MaxPendingEvents, 0)

PendingPayloads ==
  { Payload(W(<<"generate", "a", "sunset">>), << >>),
    Payload(<<"Watercolor">>, << >>),
    Payload(<<"hello">>, << >>) }

PendingNext ==
  \/ \E p \in PendingPayloads : HandleSendMessage(p, MaxGap, 0) /\ UNCHANGED liveVars
  \/ \E r \in inflight : \E outcome \in ImageOutcomes : ImageSettle(r, outcome) /\ UNCHANGED liveVars
  \/ \E r \in inflight : ChatComplete(r) /\ UNCHANGED liveVars
  \/ HandleNewChat(MaxGap, 0) /\ UNCHANGED liveVars
  \/ \E sessionId \in SessionIds(sessions) : HandleSelectSession(sessionId) /\ UNCHANGED liveVars

PendingSpec == PendingInit /\ [][PendingNext]_vars

\* ------------------------------------ summaries and the session operations
\* MaxSummaryEvents events: summaries asked for, in one session or in several,
\* settled in any order, with sessions created, selected and deleted in between
SummaryInit == Start(MaxSummaryEvents, MaxClose)

SummaryOutcomes == {"summary", "error"}

SummaryNext ==
  \/ \E d \in 0..MaxGap : \E e \in 0..MaxMid :
        HandleSummarize(<<"long", SP, "text">>, d, e) /\ UNCHANGED liveVars
  \/ \E r \in inflight : \E outcome \in SummaryOutcomes : \E d \in {0, MaxGap} :
        SummarizeSettle(r, outcome, d) /\ UNCHANGED liveVars
  \/ HandleSendMessage(Payload(<<"hello">>, << >>), MaxGap, 0) /\ UNCHANGED liveVars
  \/ HandleNewChat(MaxGap, 0) /\ UNCHANGED liveVars
  \/ \E sessionId \in SessionIds(sessions) : HandleSelectSession(sessionId) /\ UNCHANGED liveVars
  \/ \E sessionId \in SessionIds(sessions) : HandleDeleteSession(sessionId, MaxGap, 0) /\ UNCHANGED liveVars

SummarySpec == SummaryInit /\ [][SummaryNext]_vars

\* ====================================================================
\* LiveChatView
\* ====================================================================
\* setStatus: React drops the update once the component is unmounted
setStatus(s) == IF stage = "live-chat" THEN s ELSE status

\* no continuation is waiting to run: connect() is not between the session's
\* opening and line 253, and no onmessage call is suspended at its await; timers,
\* events and renders run only then, while the library may call onmessage again
Idle == connectPc # "opened" /\ decoding = << >>

\* a LiveServerMessage: serverContent.inputTranscription.text (or none),
\* outputTranscription.text (or none), turnComplete, the duration of the audio in
\* modelTurn.parts[0].inlineData (0 for none), interrupted
Message(inText, outText, turnComplete, audio, interrupted) ==
  [inputTranscription |-> inText, outputTranscription |-> outText,
   turnComplete |-> turnComplete, audio |-> audio, interrupted |-> interrupted]

LiveMessages ==
  { Message(Some(<<"wh">>), None, FALSE, 0, FALSE),
    Message(Some(<<"where">>), None, FALSE, 0, FALSE),
    Message(None, Some(<<"go", SP>>), FALSE, 0, FALSE),
    Message(None, Some(<<"east">>), TRUE, 0, FALSE),
    Message(None, None, TRUE, 0, FALSE),
    Message(None, None, FALSE, 1, FALSE),
    Message(None, None, FALSE, 2, FALSE),
    Message(None, None, FALSE, 0, TRUE) }

AudioMessages ==
  {m \in LiveMessages :
     m.inputTranscription = None /\ m.outputTranscription = None /\ ~m.turnComplete}

TranscriptionMessages == {m \in LiveMessages : m.audio = 0 /\ ~m.interrupted}

\* the updaters given to setTranscription (input, output, final), applied to prev
\* with the accumulators as they are when the updater runs
RunUpdater(kind, prev, inRef, outRef) ==
  LET n == Len(prev)
  IN CASE kind = "input" ->
            IF n > 0 /\ ~prev[n].isFinal THEN [prev EXCEPT ![n].user = inRef]
            ELSE Append(prev, [user |-> inRef, bot |-> << >>, isFinal |-> FALSE])
       [] kind = "output" -> IF n > 0 THEN [prev EXCEPT ![n].bot = outRef] ELSE prev
       [] kind = "final" -> IF n > 0 THEN [prev EXCEPT ![n].isFinal = TRUE] ELSE prev

RECURSIVE RunUpdaters(_, _, _, _)
RunUpdaters(kinds, prev, inRef, outRef) ==
  IF kinds = << >> THEN prev
  ELSE RunUpdaters(Tail(kinds), RunUpdater(Head(kinds), prev, inRef, outRef), inRef, outRef)

\* source.stop() on each clip of the set
StopAll(cs, held) == [c \in DOMAIN cs |-> IF c \in held THEN [cs[c] EXCEPT !.stopped = TRUE] ELSE cs[c]]

\* App renders LiveChatView; its effect creates the output context and calls
\* connect(), which runs up to the await of getUserMedia
Mount ==
  /\ stage = "chat" /\ heard.attempts = 0
  /\ stage' = "live-chat"
  /\ outputAudioContextRef' = "running"
  /\ status' = "connecting"
  /\ connectPc' = "getUserMedia"
  /\ heard' = [heard EXCEPT !.attempts = @ + 1]
  /\ UNCHANGED <<connection, sessionRef, mediaStreamRef, inputAudioContextRef,
                 scriptProcessorRef, audioVars, transcriptVars>>

\* getUserMedia resolves: the stream is kept and ai.live.connect is called
GetUserMediaResolves ==
  /\ connectPc = "getUserMedia" /\ Idle
  /\ mediaStreamRef' = "live"
  /\ connection' = "connecting"
  /\ connectPc' = "connect"
  /\ UNCHANGED <<stage, status, sessionRef, inputAudioContextRef, outputAudioContextRef,
                 scriptProcessorRef, audioVars, transcriptVars, heard>>

\* getUserMedia rejects: the catch of connect()
GetUserMediaRejects ==
  /\ connectPc = "getUserMedia" /\ Idle
  /\ connectPc' = "caught"
  /\ status' = setStatus("error")
  /\ UNCHANGED <<stage, connection, refVars, audioVars, transcriptVars, heard>>

\* the promise of ai.live.connect rejects: the catch of connect()
ConnectRejects ==
  /\ connectPc = "connect" /\ connection = "connecting" /\ Idle
  /\ connectPc' = "caught"
  /\ connection' = "closed"
  /\ status' = setStatus("error")
  /\ UNCHANGED <<stage, refVars, audioVars, transcriptVars, heard>>

\* callbacks.onopen
onopen ==
  /\ connection = "connecting" /\ Idle
  /\ connection' = "open"
  /\ status' = setStatus("connected")
  /\ inputAudioContextRef' = "running"
  /\ scriptProcessorRef' = "connected"
  /\ connectPc' = "opened"
  /\ UNCHANGED <<stage, sessionRef, mediaStreamRef, outputAudioContextRef,
                 audioVars, transcriptVars, heard>>

\* sessionPromise is fulfilled: sessionRef.current = await sessionPromise, then
\* the then-callbacks registered since, in their order
ConnectResumes ==
  /\ connectPc = "opened"
  /\ sessionRef' = "session"
  /\ connectPc' = "done"
  /\ heard' = [heard EXCEPT
                 !.sends = @ \o [i \in DOMAIN heard.pending |->
                                   [frame |-> heard.pending[i], handle |-> TRUE, waited |-> TRUE]],
                 !.pending = << >>]
  /\ UNCHANGED <<stage, status, connection, mediaStreamRef, inputAudioContextRef,
                 outputAudioContextRef, scriptProcessorRef, audioVars, transcriptVars>>

\* a sample of the input buffer is sample / SampleDen, between -1.0 and 1.0
Samples == (0 - SampleDen)..SampleDen

\* conversion of a number to an element of an Int16Array: the fraction is dropped,
\* then the value is taken modulo 2^16 into -32768..32767
Truncate(num, den) == IF num >= 0 THEN num \div den ELSE 0 - ((0 - num) \div den)

ToInt16(x) == LET m == x % 65536 IN IF m >= 32768 THEN m - 65536 ELSE m

\* int16[i] = inputData[i] * 32768
Int16Of(sample) == ToInt16(Truncate(sample * 32768, SampleDen))

\* variant that calls sendRealtimeInput on sessionRef.current at once
onaudioprocess_SendsAtOnce(sample) ==
  /\ scriptProcessorRef = "connected" /\ inputAudioContextRef = "running" /\ decoding = << >>
  /\ heard.frames < MaxFrames
  /\ heard' = [heard EXCEPT
                 !.frames = @ + 1,
                 !.pcm = Append(@, [sample |-> sample, int16 |-> Int16Of(sample)]),
                 !.sends = Append(@, [frame |-> heard.frames + 1,
                                      handle |-> sessionRef = "session", waited |-> FALSE])]
  /\ UNCHANGED <<stage, status, connectPc, connection, refVars, audioVars, transcriptVars>>

\* scriptProcessor.onaudioprocess: one frame is converted and handed to
\* sessionPromise.then(session => session.sendRealtimeInput(...))
onaudioprocess(sample) ==
  /\ scriptProcessorRef = "connected" /\ inputAudioContextRef = "running" /\ decoding = << >>
  /\ heard.frames < MaxFrames
  /\ heard' = [heard EXCEPT
                 !.frames = @ + 1,
                 !.pcm = Append(@, [sample |-> sample, int16 |-> Int16Of(sample)]),
                 !.pending = IF connectPc = "done" THEN @ ELSE Append(@, heard.frames + 1),
                 !.sends = IF connectPc = "done"
                           THEN Append(@, [frame |-> heard.frames + 1, handle |-> TRUE,
                                           waited |-> FALSE])
                           ELSE @,
                 !.sent = IF connection = "open" THEN @ + 1 ELSE @,
                 !.afterCleanup =
                    IF heard.cleanups > 0 /\ mediaStreamRef = "live" THEN @ + 1 ELSE @,
                 !.afterEnd =
                    IF stage = "live-chat" /\ status \in {"error", "closed"}
                       /\ mediaStreamRef = "live" THEN @ + 1 ELSE @]
  /\ UNCHANGED <<stage, status, connectPc, connection, refVars, audioVars, transcriptVars>>

\* callbacks.onmessage up to its await (to its end when the message has no audio);
\* eager: React runs the first updater inside setTranscription
onmessage(m, eager) ==
  LET hasIn == m.inputTranscription # None
      hasOut == m.outputTranscription # None
      inRef == IF hasIn THEN m.inputTranscription[1] ELSE currentInputTranscription
      outRef == IF hasOut THEN currentOutputTranscription \o m.outputTranscription[1]
                ELSE currentOutputTranscription
      kinds == (IF hasIn THEN <<"input">> ELSE << >>)
               \o (IF hasOut THEN <<"output">> ELSE << >>)
               \o (IF m.turnComplete THEN <<"final">> ELSE << >>)
      mounted == stage = "live-chat"
  IN /\ connection = "open" /\ connectPc # "opened"
     /\ heard.messages < MaxMessages
     /\ eager => (updateQueue = << >> /\ kinds # << >> /\ mounted)
     /\ transcription' =
          IF eager THEN RunUpdater(Head(kinds), transcription, inRef, outRef)
          ELSE transcription
     /\ updateQueue' =
          IF ~mounted THEN updateQueue
          ELSE updateQueue \o (IF eager THEN Tail(kinds) ELSE kinds)
     /\ currentInputTranscription' = IF m.turnComplete THEN << >> ELSE inRef
     /\ currentOutputTranscription' = IF m.turnComplete THEN << >> ELSE outRef
     /\ IF m.audio > 0
        THEN /\ nextStartTimeRef' = Max({nextStartTimeRef, currentTime})
             /\ decoding' = Append(decoding,
                               [duration |-> m.audio, interrupted |-> m.interrupted,
                                receivedAt |-> currentTime, epoch |-> heard.interruptions])
             /\ UNCHANGED <<sourcesRef, clips>>
        ELSE IF m.interrupted
        THEN /\ clips' = StopAll(clips, sourcesRef)
             /\ sourcesRef' = {}
             /\ nextStartTimeRef' = 0
             /\ UNCHANGED decoding
        ELSE UNCHANGED <<sourcesRef, clips, nextStartTimeRef, decoding>>
     /\ heard' = [heard EXCEPT
                    !.messages = @ + 1,
                    !.interruptions = IF m.interrupted /\ m.audio = 0 THEN @ + 1 ELSE @,
                    !.turns = IF m.turnComplete THEN @ + 1 ELSE @,
                    !.user = IF m.turnComplete THEN None
                             ELSE IF hasIn THEN m.inputTranscription ELSE @,
                    !.bot = IF m.turnComplete THEN << >>
                            ELSE IF hasOut THEN @ \o m.outputTranscription[1] ELSE @,
                    !.last = IF m.turnComplete THEN "final"
                             ELSE IF hasOut THEN "output"
                             ELSE IF hasIn THEN "input" ELSE @]
     /\ UNCHANGED <<stage, status, connectPc, connection, refVars, currentTime>>

\* decodeAudioDataResumes with line 222 left out: the next start time is not
\* moved past the clip
decodeAudioDataResumes_NoAdvance ==
  /\ decoding # << >>
  /\ LET d == Head(decoding)
         source == [start |-> nextStartTimeRef, duration |-> d.duration,
                    receivedAt |-> d.receivedAt, startedAt |-> currentTime,
                    epoch |-> d.epoch, startedIn |-> heard.interruptions,
                    stopped |-> FALSE]
         id == Len(clips) + 1
     IN /\ decoding' = Tail(decoding)
        /\ clips' = Append(clips, source)
        /\ sourcesRef' = sourcesRef \cup {id}
        /\ nextStartTimeRef' = nextStartTimeRef
        /\ UNCHANGED heard
  /\ UNCHANGED <<stage, status, connectPc, connection, refVars, currentTime, transcriptVars>>

\* the oldest suspended onmessage call resumes after decodeAudioData: the clip is
\* created, started at nextStartTimeRef and added to the set, then the interrupted
\* flag of its message is handled
decodeAudioDataResumes ==
  /\ decoding # << >>
  /\ LET d == Head(decoding)
         source == [start |-> nextStartTimeRef, duration |-> d.duration,
                    receivedAt |-> d.receivedAt, startedAt |-> currentTime,
                    epoch |-> d.epoch, startedIn |-> heard.interruptions,
                    stopped |-> FALSE]
         id == Len(clips) + 1
     IN /\ decoding' = Tail(decoding)
        /\ IF d.interrupted
           THEN /\ clips' = StopAll(Append(clips, source), sourcesRef \cup {id})
                /\ sourcesRef' = {}
                /\ nextStartTimeRef' = 0
           ELSE /\ clips' = Append(clips, source)
                /\ sourcesRef' = sourcesRef \cup {id}
                /\ nextStartTimeRef' = nextStartTimeRef + d.duration
        /\ heard' = [heard EXCEPT !.interruptions = IF d.interrupted THEN @ + 1 ELSE @]
  /\ UNCHANGED <<stage, status, connectPc, connection, refVars, currentTime, transcriptVars>>

\* when the clip is heard: from its start time, or from the call of start() when
\* that time has passed, for its duration
PlaysFrom(c) == Max({c.start, c.startedAt})
PlaysUntil(c) == PlaysFrom(c) + c.duration

\* the 'ended' listener of a clip: it has played to its end or was stopped
ended(id) ==
  /\ id \in sourcesRef /\ Idle
  /\ clips[id].stopped \/ currentTime >= PlaysUntil(clips[id])
  /\ sourcesRef' = sourcesRef \ {id}
  /\ UNCHANGED <<stage, status, connectPc, connection, refVars, nextStartTimeRef,
                 currentTime, decoding, clips, transcriptVars, heard>>

\* the playback clock advances
Tick ==
  /\ outputAudioContextRef = "running" /\ Idle
  /\ currentTime < MaxTime
  /\ currentTime' = currentTime + 1
  /\ UNCHANGED <<stage, status, connectPc, connection, refVars, sourcesRef,
                 nextStartTimeRef, decoding, clips, transcriptVars, heard>>

\* React renders: the queued updaters run in order and read the accumulators now
Render ==
  /\ updateQueue # << >> /\ Idle
  /\ transcription' = RunUpdaters(updateQueue, transcription,
                                  currentInputTranscription, currentOutputTranscription)
  /\ updateQueue' = << >>
  /\ UNCHANGED <<stage, status, connectPc, connection, refVars, audioVars,
                 currentInputTranscription, currentOutputTranscription, heard>>

\* callbacks.onerror; the connection then only closes
onerror ==
  /\ connection \in {"connecting", "open"} /\ Idle
  /\ connection' = "errored"
  /\ status' = setStatus("error")
  /\ UNCHANGED <<stage, connectPc, refVars, audioVars, transcriptVars, heard>>

\* callbacks.onclose: the server closed, or an error or session.close() came before
onclose ==
  /\ connection \in {"open", "errored", "closing"} /\ Idle
  /\ connection' = "closed"
  /\ status' = setStatus("closed")
  /\ UNCHANGED <<stage, connectPc, refVars, audioVars, transcriptVars, heard>>

\* onGoBack: App renders the chat again and the cleanup of the effect runs
Unmount ==
  /\ stage = "live-chat" /\ Idle
  /\ stage' = "chat"
  /\ connection' = IF sessionRef = "session" /\ connection = "open" THEN "closing"
                   ELSE connection
  /\ mediaStreamRef' = IF mediaStreamRef = "live" THEN "stopped" ELSE mediaStreamRef
  /\ scriptProcessorRef' = IF scriptProcessorRef = "connected" THEN "disconnected"
                           ELSE scriptProcessorRef
  /\ inputAudioContextRef' = IF inputAudioContextRef = "running" THEN "closed"
                             ELSE inputAudioContextRef
  /\ outputAudioContextRef' = IF outputAudioContextRef = "running" THEN "closed"
                              ELSE outputAudioContextRef
  /\ clips' = StopAll(clips, sourcesRef)
  /\ updateQueue' = << >>
  /\ heard' = [heard EXCEPT !.cleanups = @ + 1]
  /\ UNCHANGED <<status, connectPc, sessionRef, sourcesRef, nextStartTimeRef, currentTime,
                 decoding, transcription, currentInputTranscription,
                 currentOutputTranscription>>

\* the calls that take the view from its mounting to an open session
Connecting ==
  \/ Mount /\ UNCHANGED vars
  \/ GetUserMediaResolves /\ UNCHANGED vars
  \/ onopen /\ UNCHANGED vars
  \/ ConnectResumes /\ UNCHANGED vars

\* the life of the view: connection, microphone frames, at most MaxLiveClips clips,
\* errors, closing and leaving
LiveNext ==
  \/ Connecting
  \/ GetUserMediaRejects /\ UNCHANGED vars
  \/ ConnectRejects /\ UNCHANGED vars
  \/ onaudioprocess(0) /\ UNCHANGED vars
  \/ \E m \in AudioMessages :
        heard.messages < MaxLiveClips /\ m.audio = 1 /\ onmessage(m, FALSE) /\ UNCHANGED vars
  \/ decodeAudioDataResumes /\ UNCHANGED vars
  \/ \E id \in sourcesRef : ended(id) /\ UNCHANGED vars
  \/ Tick /\ UNCHANGED vars
  \/ onerror /\ UNCHANGED vars
  \/ onclose /\ UNCHANGED vars
  \/ Unmount /\ UNCHANGED vars

LiveSpec == Init /\ [][LiveNext]_<<vars, liveVars>>

\* the promise of ai.live.connect is settled by the library once the socket is open
LiveFairSpec == LiveSpec /\ WF_<<vars, liveVars>>(ConnectResumes /\ UNCHANGED vars)

\* an open session whose microphone delivers frames of any sample value
PcmNext ==
  \/ Connecting
  \/ \E sample \in Samples : onaudioprocess(sample) /\ UNCHANGED vars

PcmSpec == Init /\ [][PcmNext]_<<vars, liveVars>>

\* an open session delivering audio and interruptions
AudioNext ==
  \/ Connecting
  \/ \E m \in AudioMessages : onmessage(m, FALSE) /\ UNCHANGED vars
  \/ decodeAudioDataResumes /\ UNCHANGED vars
  \/ \E id \in sourcesRef : ended(id) /\ UNCHANGED vars
  \/ Tick /\ UNCHANGED vars

AudioSpec == Init /\ [][AudioNext]_<<vars, liveVars>>

\* an open session delivering transcriptions and turn completions
TranscriptionNext ==
  \/ Connecting
  \/ \E m \in TranscriptionMessages : \E eager \in BOOLEAN :
        onmessage(m, eager) /\ UNCHANGED vars
  \/ Render /\ UNCHANGED vars

TranscriptionSpec == Init /\ [][TranscriptionNext]_<<vars, liveVars>>

\* ====================================================================
\* Properties
\* ====================================================================
LoadingCount(ms) == Cardinality({j \in DOMAIN ms : ms[j].isLoading})

\* a step that is one accepted call of handleSendMessage
SubmitStep == submitted'.n # submitted.n /\ submitted'.accepted

\* the session the call was made in, before and after the call
Before == FindSession(sessions, submitted'.sessionId)[1]
After == FindSession(sessions', submitted'.sessionId)[1]

\* the backend calls and the messages the step made
NewRequests == inflight' \ inflight
NewMessages == {j \in DOMAIN After.messages : After.messages[j].uid >= counters.uid}

\* the six conditions of the router, in the order of section 4.1, evaluated on a
\* payload and on the pending prompt and session language it met
RouterConditions(sub) ==
  << /\ langChangeMatch(sub.text) # None
     /\ findLanguageByName(langChangeMatch(sub.text)[1]).code # sub.languageCode,
     Truthy(sub.pending) /\ sub.text \in ArtStyleSet,
     Len(sub.files) = 1 /\ IsImageMime(sub.files[1].mimeType) /\ trim(sub.text) # << >>,
     imageGenRegex(sub.text) /\ ~imageGenBlockRegex(sub.text) /\ Len(sub.files) = 0,
     isTripPlan(sub.text) /\ Len(sub.files) = 0,
     TRUE >>

RouterActionNames ==
  <<"languageSwitch", "artStyle", "imageEdit", "imageIntent", "tripPlan", "defaultChat">>

ExpectedAction(sub) ==
  RouterActionNames[Min({i \in 1..6 : RouterConditions(sub)[i]})]

\* the router actions a step performed, read off what the step changed
RouterActionsFired ==
  (IF After.languageCode # Before.languageCode THEN {"languageSwitch"} ELSE {})
  \cup (IF \E r \in NewRequests : r.kind = "generateImage" THEN {"artStyle"} ELSE {})
  \cup (IF \E r \in NewRequests : r.kind = "editImage" THEN {"imageEdit"} ELSE {})
  \cup (IF \E j \in NewMessages : After.messages[j].suggestions = artStyleSuggestions
        THEN {"imageIntent"} ELSE {})
  \cup (IF \E j \in NewMessages : \E c \in LanguageCodes :
             After.messages[j].sender = "bot" /\ After.messages[j].text = TRIP_PLAN_PROMPT(c)
        THEN {"tripPlan"} ELSE {})
  \cup (IF \E r \in NewRequests : r.kind = "sendMessage" THEN {"defaultChat"} ELSE {})

C2_WelcomeOnlyBeforeUserTurns ==
  /\ \A i \in DOMAIN sessions :
        (sessions[i].messages # << >> /\ sessions[i].messages[1].isWelcome)
           => UserTurns(sessions[i].messages) = 0
  /\ LET a == FindSession(sessions, activeSessionId)[1]
         kept == SelectSeqIdx(a.messages, {j \in DOMAIN a.messages : ~a.messages[j].isWelcome})
     IN chatSessionRef[1].history = geminiHistory(kept)

\* C3: in every session the number of messages flagged isLoading equals the
\* number of that session's chat, image and video requests in flight.
C3_LoadingEqualsInFlight ==
  \A i \in DOMAIN sessions :
     LoadingCount(sessions[i].messages) =
       Cardinality({r \in inflight : r.sessionId = sessions[i].id /\ r.kind # "tipTimer"})

\* the submission is a language switch to a supported language other than the
\* session's own
SwitchStep == SubmitStep /\ RouterConditions(submitted')[1]

TargetLanguage == findLanguageByName(langChangeMatch(submitted'.text)[1])

KeptMessages ==
  SelectSeqIdx(Before.messages, {j \in DOMAIN Before.messages : ~Before.messages[j].isWelcome})

NoNewPlaceholder == \A j \in NewMessages : ~After.messages[j].isLoading

\* C4: a language switch sets the session's languageCode to the requested code,
\* appends the user message and one confirmation message, issues no chat stream
\* request and creates no loading placeholder.
C4_LanguageSwitchEffects ==
  [][SwitchStep =>
       /\ After.languageCode = TargetLanguage.code
       /\ Len(After.messages) = Len(KeptMessages) + 2
       /\ SubSeq(After.messages, 1, Len(KeptMessages)) = KeptMessages
       /\ LET u == After.messages[Len(After.messages) - 1]
              c == After.messages[Len(After.messages)]
          IN /\ u.sender = "user" /\ u.text = submitted'.text
             /\ c.sender = "bot" /\ ~c.isLoading
             /\ c.text = ConfirmationText(TargetLanguage.name)
       /\ inflight' = inflight
       /\ NoNewPlaceholder]_vars

\* C4 witness: "switch to Hindi" was submitted in an English session, which is now
\* Hindi and ends with the confirmation, nothing being in flight.
C4_Witness ==
  /\ submitted.accepted
  /\ langChangeMatch(submitted.text) = Some("hindi")
  /\ submitted.languageCode = "en-US"
  /\ inflight = {}
  /\ \E i \in DOMAIN sessions :
        /\ sessions[i].id = submitted.sessionId
        /\ sessions[i].languageCode = "hi-IN"
        /\ sessions[i].messages[Len(sessions[i].messages)].text = ConfirmationText("Hindi")
        /\ LoadingCount(sessions[i].messages) = 0

\* words of the confirmation template that are English
EnglishWords == {"Certainly!", "I", "will", "now", "respond", "in"}

\* a text written in a language other than English holds no English word
WrittenIn(text, code) ==
  code # "en-US" => \A j \in DOMAIN text : text[j] \notin EnglishWords

\* C5: the confirmation message of a language switch is written in the newly
\* selected language.
C5_ConfirmationInNewLanguage ==
  [][SwitchStep =>
       LET c == After.messages[Len(After.messages)]
       IN c.sender = "bot" /\ WrittenIn(c.text, After.languageCode)]_vars

\* C6 as stated: every router action other than the default chat makes no
\* network call and creates no loading placeholder.
C6_NoCallOutsideDefaultChat ==
  [][(SubmitStep /\ ExpectedAction(submitted') # "defaultChat")
       => (NewRequests = {} /\ NoNewPlaceholder)]_vars

\* C6: language switch, image-generation intent and trip plan make no network
\* call and create no loading placeholder; art-style selection and image edit
\* make exactly one image call and create exactly one loading placeholder.
C6_CallsByRouterAction ==
  [][SubmitStep =>
       LET a == ExpectedAction(submitted')
       IN /\ a \in {"languageSwitch", "imageIntent", "tripPlan"}
               => (NewRequests = {} /\ NoNewPlaceholder)
          /\ a \in {"artStyle", "imageEdit"}
               => /\ Cardinality(NewRequests) = 1
                  /\ \A r \in NewRequests :
                        r.kind = (IF a = "artStyle" THEN "generateImage" ELSE "editImage")
                  /\ Cardinality({j \in NewMessages : After.messages[j].isLoading}) = 1]_vars

\* C6 witness: the trip plan was asked for and answered with the canned reply,
\* nothing being in flight and no message loading.
C6_Witness ==
  /\ submitted.accepted
  /\ ExpectedAction(submitted) = "tripPlan"
  /\ inflight = {}
  /\ \E i \in DOMAIN sessions :
        /\ sessions[i].id = submitted.sessionId
        /\ sessions[i].messages[Len(sessions[i].messages)].text
             = TRIP_PLAN_PROMPT(sessions[i].languageCode)
        /\ LoadingCount(sessions[i].messages) = 0

\* the text asks for an image, with no files and no pending prompt
IntentSubmitted ==
  /\ SubmitStep
  /\ imageGenRegex(submitted'.text) /\ ~imageGenBlockRegex(submitted'.text)
  /\ Len(submitted'.files) = 0
  /\ ~Truthy(submitted'.pending)

IntentEffects ==
  /\ pendingImagePrompt' = Some(submitted'.text)
  /\ Len(After.messages) = Len(KeptMessages) + 2
  /\ SubSeq(After.messages, 1, Len(KeptMessages)) = KeptMessages
  /\ LET u == After.messages[Len(After.messages) - 1]
         b == After.messages[Len(After.messages)]
     IN /\ u.sender = "user" /\ u.text = submitted'.text
        /\ b.sender = "bot" /\ b.suggestions = artStyleSuggestions
  /\ \A r \in NewRequests : r.kind \notin {"generateImage", "editImage"}

\* C7 as stated: an image request without files and without a pending prompt
\* records the text as pending prompt, appends the user message and a bot message
\* offering every art style, and calls no image backend.
C7_IntentRecordsPrompt == [][IntentSubmitted => IntentEffects]_vars

\* C7: the same, for an image request that is not also a language switch to a
\* language other than the session's.
C7_IntentRecordsPromptUnlessSwitch ==
  [][(IntentSubmitted /\ ~RouterConditions(submitted')[1]) => IntentEffects]_vars

\* C7 witness: "generate a sunset" is the pending prompt and the session ends with
\* the bot message offering the art styles.
C7_Witness ==
  /\ submitted.accepted
  /\ imageGenRegex(submitted.text) /\ ~imageGenBlockRegex(submitted.text)
  /\ submitted.pending = None
  /\ pendingImagePrompt = Some(submitted.text)
  /\ inflight = {}
  /\ \E i \in DOMAIN sessions :
        /\ sessions[i].id = submitted.sessionId
        /\ sessions[i].messages[Len(sessions[i].messages)].suggestions = artStyleSuggestions

\* a generateImage call returned or raised
ImageGenerationSettles ==
  /\ counters' = counters
  /\ \E r \in inflight : r.kind = "generateImage" /\ inflight' = inflight \ {r}

\* C8: with a pending prompt P, submitting an art style S calls image generation
\* exactly once, with P and S, and leaves the pending prompt empty; the call's
\* success or failure does not change the pending prompt.
C8_StyleSelectionGeneratesOnce ==
  [][/\ (SubmitStep /\ Truthy(submitted'.pending) /\ submitted'.text \in ArtStyleSet)
          => /\ \E r \in NewRequests :
                   /\ NewRequests = {r}
                   /\ r.kind = "generateImage"
                   /\ r.args.prompt = <<"A", SP>> \o toLowerCase(submitted'.text)
                                        \o <<SP, "of:", SP>> \o submitted'.pending[1]
             /\ pendingImagePrompt' = None
     /\ ImageGenerationSettles => pendingImagePrompt' = pendingImagePrompt]_vars

\* C8 witness: an art style was submitted on a pending prompt, the generation has
\* failed, and the pending prompt is empty.
C8_Witness ==
  /\ submitted.accepted
  /\ Truthy(submitted.pending)
  /\ submitted.text \in ArtStyleSet
  /\ pendingImagePrompt = None
  /\ inflight = {}
  /\ \E i \in DOMAIN sessions : \E j \in DOMAIN sessions[i].messages :
        sessions[i].messages[j].text = ImageFailureText("generateImage", "throw")

\* C9: a pending prompt is cleared by every accepted submission that is not an
\* art style, or replaced by the submission's own text when that is an image
\* request; a language switch included.
C9_PendingSuperseded ==
  [][(SubmitStep /\ Truthy(submitted'.pending) /\ submitted'.text \notin ArtStyleSet)
       => pendingImagePrompt' \in {None, Some(submitted'.text)}
          /\ (pendingImagePrompt' # None => "imageIntent" \in RouterActionsFired)]_vars

\* the videoState values of the message created as uid in a session list
VideoStatesOf(ss, uid) ==
  UNION { {ss[i].messages[j].videoState :
             j \in {k \in DOMAIN ss[i].messages : ss[i].messages[k].uid = uid}} :
          i \in DOMAIN ss }

\* C10: the videoState of a message changes only from generating to done or to
\* failed, and never changes afterwards.
C10_VideoStateOnlyAdvances ==
  [][\A uid \in 0..counters.uid :
       \A a \in VideoStatesOf(sessions, uid) : \A b \in VideoStatesOf(sessions', uid) :
          a = b \/ (a = "generating" /\ b \in {"done", "failed"})]_vars

\* the placeholder created for the request, as it stands in the request's session
PlaceholderOf(ss, r) ==
  LET cs == FindSession(ss, r.sessionId)
  IN IF cs = None THEN {}
     ELSE {cs[1].messages[j] : j \in {k \in DOMAIN cs[1].messages :
                                        cs[1].messages[k].uid = r.uid}}

NoDownloadLinkText ==
  <<"Sorry, I couldn't generate the video. Error: ",
    "Video generation completed but no download link was found.">>

\* C11: when a video job reports done without a result uri, the placeholder
\* becomes videoState failed, not loading, with a text made from the raised error,
\* and it holds no video url.
C11_NoUriResolvesToFailed ==
  [][\A r \in inflight :
       VideoDone(r, FALSE) =>
         \A m \in PlaceholderOf(sessions', r) :
            /\ m.videoState = "failed" /\ ~m.isLoading
            /\ m.text = NoDownloadLinkText
            /\ m.videoUrl = None]_vars

\* C12: as long as a video job has neither reported done nor raised, its
\* placeholder is in videoState generating and loading.
C12_GeneratingUntilSettled ==
  \A r \in inflight :
     r.kind = "generateVideo" =>
       \A m \in PlaceholderOf(sessions, r) : m.videoState = "generating" /\ m.isLoading

RECURSIVE ConcatTexts(_)
ConcatTexts(chunks) ==
  IF chunks = << >> THEN << >> ELSE Head(chunks).text \o ConcatTexts(Tail(chunks))

RECURSIVE ConcatSources(_)
ConcatSources(chunks) ==
  IF chunks = << >> THEN << >> ELSE Head(chunks).sources \o ConcatSources(Tail(chunks))

\* no two entries share a uri, and each cited uri is present with the title of
\* its last citation
DeduplicatedLastSeen(srcs, cited) ==
  /\ \A i \in DOMAIN srcs : \A j \in DOMAIN srcs : srcs[i].uri = srcs[j].uri => i = j
  /\ \A i \in DOMAIN srcs : \E k \in DOMAIN cited : cited[k] = srcs[i]
  /\ \A k \in DOMAIN cited :
        \E i \in DOMAIN srcs :
           /\ srcs[i].uri = cited[k].uri
           /\ srcs[i] = cited[Max({n \in DOMAIN cited : cited[n].uri = cited[k].uri})]

\* a chunk of request r was processed and changed no message's sources
StreamingAttachesNoSources(r) ==
  \A c \in Chunks :
     ChatChunk(r, c) =>
       \A i \in DOMAIN sessions : \A j \in DOMAIN sessions[i].messages :
          sessions'[i].messages[j].sources = sessions[i].messages[j].sources

\* C19 as stated: at completion the placeholder is not loading, its text is the
\* concatenation of the chunk texts without the inline images, its sources hold
\* one entry per cited uri, the last one seen; streaming attaches no sources.
C19_CompletionTextAndSources ==
  [][\A r \in inflight :
       /\ ChatComplete(r) =>
            \A m \in PlaceholderOf(sessions', r) :
               /\ ~m.isLoading
               /\ m.text = StripImageMarkdown(ConcatTexts(r.received))
               /\ DeduplicatedLastSeen(m.sources, ConcatSources(r.received))
       /\ StreamingAttachesNoSources(r)]_vars

\* C19: the same, the text being also trimmed of leading and trailing white space.
C19_CompletionTextTrimmed ==
  [][\A r \in inflight :
       /\ ChatComplete(r) =>
            \A m \in PlaceholderOf(sessions', r) :
               /\ ~m.isLoading
               /\ m.text = trim(StripImageMarkdown(ConcatTexts(r.received)))
               /\ DeduplicatedLastSeen(m.sources, ConcatSources(r.received))
       /\ StreamingAttachesNoSources(r)]_vars

\* C19 witness: a stream of two chunks has completed; the message holds the text
\* without the image and the trailing space, and the last citation of each uri.
C19_Witness ==
  \E i \in DOMAIN sessions : \E j \in DOMAIN sessions[i].messages :
     LET m == sessions[i].messages[j]
     IN /\ ~m.isLoading
        /\ m.text = <<"Om", SP, "beach", SP, "road">>
        /\ m.sources = <<Source("u1", "C"), Source("u2", "D")>>

\* C20: when a chat call or its stream raises, the placeholder's text becomes the
\* failure notice, replacing the text streamed so far, and it is not loading.
C20_FailureReplacesText ==
  [][\A r \in inflight :
       ChatFail(r) =>
         \A m \in PlaceholderOf(sessions', r) : m.text = FailureNotice /\ ~m.isLoading]_vars

\* C20 witness: a chat call or its stream has raised; the session holds the
\* failure notice, no message is loading, and nothing is in flight.
C20_Witness ==
  /\ inflight = {}
  /\ submitted.accepted
  /\ \E i \in DOMAIN sessions :
        /\ sessions[i].id = submitted.sessionId
        /\ LoadingCount(sessions[i].messages) = 0
        /\ \E j \in DOMAIN sessions[i].messages :
              sessions[i].messages[j].text = FailureNotice

\* no interruption was handled between the receipt of clip n and the start of
\* clip n + 1
Uninterrupted(n) == clips[n].epoch = clips[n + 1].startedIn

\* C13: without an interruption between them, clip n + 1 is scheduled no earlier
\* than the start of clip n plus its duration, and exactly then when it arrived
\* before clip n had finished playing.
C13_GaplessSchedule ==
  \A n \in DOMAIN clips :
     (n + 1 \in DOMAIN clips /\ Uninterrupted(n)) =>
        /\ clips[n + 1].start >= clips[n].start + clips[n].duration
        /\ clips[n + 1].receivedAt < clips[n].start + clips[n].duration =>
              clips[n + 1].start = clips[n].start + clips[n].duration

\* C13 witness: a clip of duration 2 is followed, without interruption, by a clip
\* that arrived while it played and starts exactly at its end, and by a later
\* clip that arrived after a pause and starts after a gap.
C13_Witness ==
  \E n \in DOMAIN clips : \E k \in DOMAIN clips :
     /\ n + 1 \in DOMAIN clips /\ Uninterrupted(n)
     /\ clips[n].duration = 2
     /\ clips[n + 1].receivedAt > clips[n].start
     /\ clips[n + 1].receivedAt < clips[n].start + 2
     /\ clips[n + 1].start = clips[n].start + 2
     /\ k + 1 \in DOMAIN clips /\ Uninterrupted(k)
     /\ clips[k + 1].start > clips[k].start + clips[k].duration

\* clip k is the first one received after an interruption
FirstAfterInterruption(k) ==
  /\ clips[k].epoch > 0
  /\ k > 1 => clips[k - 1].epoch < clips[k].epoch

C15_ErrorIsFinal ==
  [][status = "error" =>
       /\ status' = "error"
       /\ heard'.attempts = heard.attempts
       /\ connection' = "connecting" => connection = "connecting"]_liveVars

\* C16: once the view was left, no connection is being made or open, no track of
\* the microphone is live, and no frame was captured from the microphone since.
C16_LeavingTearsDown ==
  heard.cleanups > 0 =>
    /\ connection \notin {"connecting", "open"}
    /\ mediaStreamRef # "live"
    /\ heard.afterCleanup = 0

\* C17: while the view is shown with status error or closed and a session was
\* requested, the tracks are stopped, the processing node is disconnected, both
\* contexts are closed, every clip held is stopped, and no frame was captured
\* from the microphone in that status.
C17_TeardownOnErrorOrClosed ==
  (stage = "live-chat" /\ status \in {"error", "closed"} /\ connection # "none") =>
    /\ mediaStreamRef # "live"
    /\ scriptProcessorRef # "connected"
    /\ inputAudioContextRef # "running"
    /\ outputAudioContextRef # "running"
    /\ \A id \in sourcesRef : clips[id].stopped
    /\ heard.afterEnd = 0

\* C18: when React has run every updater, after an input transcription the last
\* record is open and holds that text as user text; after an output transcription
\* the last record is open and its bot text is the concatenation of the output
\* texts since the last turnComplete; after a turnComplete the last record is
\* final and both accumulators are empty.
C18_TurnRecords ==
  (stage = "live-chat" /\ updateQueue = << >>) =>
    LET n == Len(transcription)
    IN /\ heard.last = "input" =>
             /\ n > 0
             /\ ~transcription[n].isFinal
             /\ transcription[n].user = heard.user[1]
       /\ (heard.last = "output" /\ n > 0) =>
             /\ ~transcription[n].isFinal
             /\ transcription[n].bot = heard.bot
       /\ heard.last = "final" =>
             /\ n > 0 => transcription[n].isFinal
             /\ currentInputTranscription = << >>
             /\ currentOutputTranscription = << >>

\* C21: a chat stream that fails leaves the conversation handle of the session as
\* it was, so the next default submission is sent on the handle that was in use at
\* the failure.
C21_FailureKeepsHandle ==
  [][\A r \in inflight : ChatFail(r) => chatSessionRef' = chatSessionRef]_vars

\* messages of ms that seed a conversation: system, welcome and empty ones left out
RECURSIVE SeedHistory(_)
SeedHistory(ms) ==
  IF ms = << >> THEN << >>
  ELSE LET m == Head(ms)
       IN (IF m.isSystem \/ m.isWelcome \/ (m.text = << >> /\ m.files = << >>)
           THEN << >>
           ELSE <<[role |-> IF m.sender = "user" THEN "user" ELSE "model",
                   text |-> m.text, files |-> m.files]>>)
          \o SeedHistory(Tail(ms))

\* C22: whenever the conversation handle is created or re-created it is seeded
\* with the active session's messages in order, system, welcome and empty messages
\* left out, user messages as role user and bot messages as role model, and it
\* carries the session's languageCode; the handle in use always carries the active
\* session's current languageCode, so it carries the new one after a switch.
C22_HandleSeededFromActiveSession ==
  /\ [][chatSessionRef' # chatSessionRef =>
          LET a == FindSession(sessions', activeSessionId')
          IN /\ a # None
             /\ chatSessionRef' = Some([languageCode |-> a[1].languageCode,
                                        history |-> SeedHistory(a[1].messages)])]_vars
  /\ [](LET a == FindSession(sessions, activeSessionId)
        IN (a # None /\ chatSessionRef # None) =>
              chatSessionRef[1].languageCode = a[1].languageCode)

\* a handle in another language than the first, seeded with the two turns of the
\* switch while the session also holds a message that was left out
C22_Witness ==
  LET a == FindSession(sessions, activeSessionId)
  IN /\ a # None
     /\ chatSessionRef # None
     /\ chatSessionRef[1].languageCode # "en-US"
     /\ Len(chatSessionRef[1].history) >= 2
     /\ Len(a[1].messages) > Len(chatSessionRef[1].history)

\* the number of the user turn that request r answers, counted in r's session
TurnOf(ss, r) ==
  LET ms == FindSession(ss, r.sessionId)[1].messages
      k == CHOOSE j \in DOMAIN ms : ms[j].uid = r.uid
  IN Cardinality({j \in 1..k : ms[j].sender = "user"})

\* C23: when the stream of a default user turn completes, the timer of the
\* sustainability tip is armed for that session exactly if the turn is the
\* session's 5th, 10th, ... user turn.
C23_TipAfterFifthTurn ==
  [][\A r \in inflight :
       (ChatComplete(r) /\ PlaceholderOf(sessions, r) # {}) =>
          ((\E t \in inflight' : t.kind = "tipTimer" /\ t.sessionId = r.sessionId)
             <=> TurnOf(sessions, r) % 5 = 0)]_vars

\* every message of every session
MessagesOf(ss) == UNION {{ss[i].messages[j] : j \in DOMAIN ss[i].messages} : i \in DOMAIN ss}

\* the messages of ss1 that are not in ss2 as they were: changed or removed
ChangedMessages(ss1, ss2) == {m.uid : m \in MessagesOf(ss1) \ MessagesOf(ss2)}

ImageResultText(kind, outcome) ==
  CASE outcome = "image" -> ImageSuccessText(kind)
    [] outcome = "text" -> <<"explanation">>
    [] OTHER -> ImageFailureText(kind, outcome)

\* C24: when the backend call of an image generation or edit returns an image,
\* text, nothing, a safety block or another block, the request's placeholder, if
\* it is still there, gets the text of that case and stops loading, it is the
\* only message that changes, and the call is not repeated; the texts of the
\* three failures differ from each other.
C24_ImageResolution ==
  [][\A r \in inflight : \A outcome \in ImageOutcomes \ {"throw"} :
       (ImageSettle(r, outcome) /\ PlaceholderOf(sessions, r) # {}) =>
          /\ \A m \in PlaceholderOf(sessions', r) :
                ~m.isLoading /\ m.text = ImageResultText(r.kind, outcome)
          /\ PlaceholderOf(sessions', r) # {}
          /\ ChangedMessages(sessions, sessions') = {r.uid}
          /\ inflight' = inflight \ {r}
          /\ \A a, b \in {"blockSafety", "blockOther", "blank"} :
                a # b => ImageFailureText(r.kind, a) # ImageFailureText(r.kind, b)]_vars

\* C25: the session list is never empty and exactly one session of the list has
\* the active id.
C25_ActiveSessionExists ==
  /\ Len(sessions) > 0
  /\ Cardinality({i \in DOMAIN sessions : sessions[i].id = activeSessionId}) = 1

\* the list without its k-th session
WithoutSession(ss, k) == SelectSeqIdx(ss, DOMAIN ss \ {k})

\* a fresh default session: default title, en-US, one welcome message
IsFreshDefault(s) ==
  /\ s.title = <<"New", SP, "Chat">>
  /\ s.languageCode = "en-US"
  /\ Len(s.messages) = 1
  /\ s.messages[1].isWelcome

\* C26: deleting the only session leaves one fresh default session, which is
\* active; deleting the active session while others remain removes that one
\* session and makes the first remaining one active; deleting a session that is
\* not active removes that one session and leaves the active id and every other
\* session as they were.
C26_DeleteSession ==
  [][\A sessionId \in SessionIds(sessions) : \A d \in 0..MaxGap : \A e \in 0..MaxMid :
       HandleDeleteSession(sessionId, d, e) =>
          IF Len(sessions) = 1
          THEN /\ Len(sessions') = 1
               /\ IsFreshDefault(sessions'[1])
               /\ activeSessionId' = sessions'[1].id
          ELSE /\ \E k \in DOMAIN sessions :
                     sessions[k].id = sessionId /\ sessions' = WithoutSession(sessions, k)
               /\ activeSessionId' = IF sessionId = activeSessionId
                                     THEN sessions'[1].id
                                     ELSE activeSessionId]_vars

DefaultTitle == <<"New", SP, "Chat">>

\* C27: the submission that brings a session its first user message sets the
\* title to the first 40 characters of that message if the title is still the
\* default one, whichever router action handles the message, and leaves the
\* title alone if it is not; no other submission changes the title.
C27_AutoTitle ==
  [][SubmitStep =>
       After.title = IF UserTurns(Before.messages) = 0 /\ Before.title = DefaultTitle
                     THEN Substring(submitted'.text, TitleLen)
                     ELSE Before.title]_vars

\* the user and bot turns of a message list: welcome and system messages left out
Turns(ms) == SelectSeqIdx(ms, {j \in DOMAIN ms : ~ms[j].isWelcome /\ ~ms[j].isSystem})

\* a step that removes sessions
SessionsRemoved ==
  \/ \E sessionId \in SessionIds(sessions) : \E d \in 0..MaxGap : \E e \in 0..MaxMid :
        HandleDeleteSession(sessionId, d, e)
  \/ \E d \in 0..MaxGap : \E e \in 0..MaxMid : HandleClearAllSessions(d, e)

\* new holds every turn of old, at its place, from the same sender, and unchanged
\* if it is a user turn or a bot turn that was already resolved
TurnsKept(old, new) ==
  /\ Len(new) >= Len(old)
  /\ \A j \in DOMAIN old :
        /\ new[j].uid = old[j].uid
        /\ new[j].sender = old[j].sender
        /\ (old[j].sender = "user" \/ ~old[j].isLoading) => new[j] = old[j]

\* C28: a step that removes no session keeps, in every session, every user and
\* bot turn at its place in the order of the appends: turns are only added at the
\* end, no user turn and no resolved bot turn is changed, and only welcome and
\* system messages are removed.
C28_NoTurnLost ==
  [][~SessionsRemoved =>
       /\ Len(sessions') >= Len(sessions)
       /\ \A i \in DOMAIN sessions :
             TurnsKept(Turns(sessions[i].messages), Turns(sessions'[i].messages))]_vars

\* the request whose chunk or result the step processes
Processed == IF counters' = counters THEN inflight \ inflight' ELSE {}

\* C29: a chunk or a result of a request whose session is not the active one any
\* more, or is not in the list any more, changes no message but the request's
\* placeholder, adds and removes no message and no session, and leaves the list
\* as it is if the request's session is gone.
C29_LateResultStaysInItsSession ==
  [][\A r \in Processed :
       (r.sessionId # activeSessionId \/ FindSession(sessions, r.sessionId) = None) =>
          /\ ChangedMessages(sessions, sessions') \subseteq {r.uid}
          /\ Len(sessions') = Len(sessions)
          /\ \A i \in DOMAIN sessions :
                Len(sessions'[i].messages) = Len(sessions[i].messages)
          /\ FindSession(sessions, r.sessionId) = None => sessions' = sessions]_vars

\* the step is the failure of request r
Failure(r) ==
  \/ ChatFail(r)
  \/ \E outcome \in {"blank", "blockSafety", "blockOther", "throw"} : ImageSettle(r, outcome)
  \/ VideoDone(r, FALSE)
  \/ VideoThrow(r)

\* C30: the failure of a chat, image-generation, image-edit or video request
\* changes no message but the request's placeholder and leaves the number of
\* sessions and of messages, the active id, every title and languageCode and the
\* pending image prompt as they were.
C30_FailureTouchesOnlyItsPlaceholder ==
  [][\A r \in inflight :
       Failure(r) =>
          /\ Len(sessions') = Len(sessions)
          /\ activeSessionId' = activeSessionId
          /\ pendingImagePrompt' = pendingImagePrompt
          /\ \A i \in DOMAIN sessions :
                /\ sessions'[i].id = sessions[i].id
                /\ sessions'[i].title = sessions[i].title
                /\ sessions'[i].languageCode = sessions[i].languageCode
                /\ Len(sessions'[i].messages) = Len(sessions[i].messages)
          /\ ChangedMessages(sessions, sessions') \subseteq {r.uid}]_vars

\* C31: while a chat stream is open and k of its chunks were processed, the
\* request's placeholder holds the concatenation of the k chunk texts and is
\* loading; and a chunk changes no message but the request's placeholder.
C31_StreamedTextGrows ==
  /\ [](\A r \in inflight :
          (r.kind = "sendMessage" /\ r.chunks >= 1) =>
             \A m \in PlaceholderOf(sessions, r) :
                m.text = ConcatTexts(r.received) /\ m.isLoading)
  /\ [][\A r \in inflight : \A c \in Chunks :
          ChatChunk(r, c) => ChangedMessages(sessions, sessions') \subseteq {r.uid}]_vars

\* C32: the frames captured so far are, in capture order and each once, the
\* frames passed to sendRealtimeInput followed by those still waiting for the
\* session; every call was made with the session at hand; and a waiting frame is
\* sent in the end.
C32_FramesSentInOrder ==
  /\ [](LET sent == [i \in DOMAIN heard.sends |-> heard.sends[i].frame]
        IN sent \o heard.pending = [i \in 1..heard.frames |-> i])
  /\ [](\A i \in DOMAIN heard.sends : heard.sends[i].handle)
  /\ (heard.pending # << >>) ~> (heard.pending = << >>)

\* two frames were sent, the first of them after waiting for the session
C32_Witness ==
  /\ Len(heard.sends) = 2
  /\ heard.sends[1].waited
  /\ ~heard.sends[2].waited

\* C33: within a session no two messages share an id.
C33_UniqueMessageIds ==
  \A s \in DOMAIN sessions :
     \A i, j \in DOMAIN sessions[s].messages :
        sessions[s].messages[i].id = sessions[s].messages[j].id => i = j

\* C34: a submission of an art-style name starts an image generation only in the
\* session in which the pending image prompt was recorded, that is, a session
\* that holds the user's request with that text.
C34_PendingPromptStaysInItsSession ==
  [][(/\ SubmitStep
      /\ submitted'.text \in ArtStyleSet
      /\ \E r \in NewRequests : r.kind = "generateImage") =>
        /\ submitted'.pending # None
        /\ \E j \in DOMAIN Before.messages :
              /\ Before.messages[j].sender = "user"
              /\ Before.messages[j].text = submitted'.pending[1]]_vars

\* C35: a turn record that is final keeps its user text and its bot text.
C35_FinalRecordFrozen ==
  [][\A k \in DOMAIN transcription :
       transcription[k].isFinal =>
          /\ k \in DOMAIN transcription'
          /\ transcription'[k].user = transcription[k].user
          /\ transcription'[k].bot = transcription[k].bot]_liveVars

C37_SubmissionUsesCurrentHandle ==
  [][SubmitStep =>
       \A r \in NewRequests :
          r.kind = "sendMessage" =>
             r.args.chat = Some(startChat(Before.languageCode, SeedHistory(Before.messages)))]_vars

\* after a language switch in the first session and a new chat, a default
\* submission is in flight in the new session on a handle in Hindi without seed,
\* while the first session holds the turns of the switch
C37_Witness ==
  \E r \in inflight :
     /\ r.kind = "sendMessage"
     /\ r.sessionId # sessions[1].id
     /\ UserTurns(sessions[1].messages) > 0
     /\ r.args.chat = Some(startChat("hi-IN", << >>))

\* sign of an integer: -1, 0 or 1
Sign(x) == IF x > 0 THEN 1 ELSE IF x < 0 THEN 0 - 1 ELSE 0

\* C38: every captured sample in [-1.0, 1.0] is sent as a 16-bit value of the
\* sample's sign, the values sent are non-decreasing in the sample, and a
\* full-scale sample of +1.0 is sent as a positive value, not as -32768.
C38_PcmKeepsSignAndOrder ==
  /\ \A i \in DOMAIN heard.pcm :
       /\ Sign(heard.pcm[i].int16) = Sign(heard.pcm[i].sample)
       /\ heard.pcm[i].sample = SampleDen => heard.pcm[i].int16 > 0
  /\ \A i, j \in DOMAIN heard.pcm :
       heard.pcm[i].sample <= heard.pcm[j].sample => heard.pcm[i].int16 <= heard.pcm[j].int16

\* a text of nothing but white space
IsBlank(t) == \A i \in DOMAIN t : t[i] = SP

\* a call of handleSendMessage with blank text and no files, or with no active session
IgnoredSubmission ==
  /\ submitted'.n # submitted.n
  /\ \/ IsBlank(submitted'.text) /\ Len(submitted'.files) = 0
     \/ \A i \in DOMAIN sessions : sessions[i].id # activeSessionId

\* C39: a submission with blank text and no files, or made while no session is
\* active, leaves the session list with every message list, the pending image
\* prompt and the user-turn counter as they were, and starts no backend call.
C39_BlankSubmissionIsNoOp ==
  [][IgnoredSubmission =>
       UNCHANGED <<sessions, activeSessionId, pendingImagePrompt, userMessageCount, inflight>>]_vars

\* a blank submission made after a turn, while an image prompt waits for its style
C39_Witness ==
  /\ submitted.n > 1
  /\ IsBlank(submitted.text) /\ Len(submitted.files) = 0
  /\ pendingImagePrompt # None
  /\ \E i \in DOMAIN sessions : Turns(sessions[i].messages) # << >>

\* the progress notice of a summary, and a summary message
ProgressNotices(ms) == {j \in DOMAIN ms : ms[j].isSystem /\ ms[j].text = <<"Summarizing...">>}

Summaries(ms) == {j \in DOMAIN ms : ~ms[j].isSystem /\ ms[j].sender = "bot" /\ ms[j].text = SummaryText}

FailureNotices(ms) == {j \in DOMAIN ms : ms[j].isSystem /\ ms[j].text = SummaryFailureNotice}

\* new is old without its progress notices, followed by exactly one message
OneAppended(old, new) ==
  LET kept == SelectSeqIdx(old, DOMAIN old \ ProgressNotices(old))
  IN Len(new) = Len(kept) + 1 /\ SubSeq(new, 1, Len(kept)) = kept

\* C40: once a summarize request has completed, its session holds no
\* "Summarizing..." system message; a success has appended exactly one summary
\* bot message, a failure has appended one failure system notice and no summary.
C40_SummarizeLeavesNoProgressNotice ==
  [][\A r \in inflight : \A outcome \in SummaryOutcomes : \A d \in {0, MaxGap} :
        SummarizeSettle(r, outcome, d) =>
          \A i \in DOMAIN sessions :
             sessions[i].id = r.sessionId =>
               LET old == sessions[i].messages
                   new == sessions'[i].messages
               IN /\ ProgressNotices(new) = {}
                  /\ OneAppended(old, new)
                  /\ outcome = "summary" =>
                       /\ Len(new) \in Summaries(new)
                       /\ Cardinality(FailureNotices(new)) = Cardinality(FailureNotices(old))
                  /\ outcome = "error" =>
                       /\ Len(new) \in FailureNotices(new)
                       /\ Cardinality(Summaries(new)) = Cardinality(Summaries(old))]_vars

\* every request has completed: one session holds a summary and a failure notice
\* and no progress notice
C40_Witness ==
  /\ inflight = {}
  /\ \E i \in DOMAIN sessions :
        /\ Summaries(sessions[i].messages) # {}
        /\ FailureNotices(sessions[i].messages) # {}
        /\ ProgressNotices(sessions[i].messages) = {}

====
